---- MODULE Spec2Model ----
(***************************************************************************)
(* A model of the dual-kernel routing engine of OpenClawPlus:              *)
(*   - TaskEvaluator      (task-evaluator.ts)   : a pure function          *)
(*   - CerebellumKernel   (cerebellum-kernel.ts): the local backend client *)
(*   - StatsCollector     (stats-collector.ts)  : cached, persisted stats  *)
(*   - DualKernelRouter   (router.ts)           : the dispatcher           *)
(*                                                                         *)
(* Strings are sequences of characters (one-character strings; a character *)
(* outside ASCII is named by its code point).  A prompt is a record        *)
(* [body, pad]: the text `body` followed by `pad` copies of the filler     *)
(* character "0", which lets a prompt be thousands of characters long.     *)
(* Confidence is measured in thousandths; times in seconds; an async       *)
(* method is cut into atomic steps at the awaits that wait for I/O.        *)
(***************************************************************************)
EXTENDS Integers, Sequences, FiniteSets, TLC

\* ------------------------------------------------------------------------
\* Bounds of the model
\* ------------------------------------------------------------------------
MaxToks == 4
MaxWords == 1
NumCallers == 2
MaxOps == 2
MaxSeqOps == 4
MaxCapOps == 2
MaxStaleOps == 3
MaxStoredOps == 3
MaxPieces == 3
MaxMixedOps == 3

\* ------------------------------------------------------------------------
\* Characters and strings
\* ------------------------------------------------------------------------
Filler == "0"

XIAO == "U+5C0F"

NAO == "U+8111"

FWCOMMA == "U+FF0C"

WhiteSpace == {" ", "\t", "\n"}

UpperChars == <<"A","B","C","D","E","F","G","H","I","J","K","L","M",
                "N","O","P","Q","R","S","T","U","V","W","X","Y","Z">>

LowerChars == <<"a","b","c","d","e","f","g","h","i","j","k","l","m",
                "n","o","p","q","r","s","t","u","v","w","x","y","z">>

\* String.prototype.toLowerCase, one character
LowerChar(ch) ==
  IF \E i \in 1..26 : UpperChars[i] = ch
  THEN LowerChars[CHOOSE i \in 1..26 : UpperChars[i] = ch]
  ELSE ch

\* String.prototype.toLowerCase
toLowerCase(s) == SubSeq([i \in 1..Len(s) |-> LowerChar(s[i])], 1, Len(s))

\* String.prototype.trim
trim(s) ==
  IF \A i \in 1..Len(s) : s[i] \in WhiteSpace
  THEN <<>>
  ELSE LET first == CHOOSE i \in 1..Len(s) :
                      /\ s[i] \notin WhiteSpace
                      /\ \A j \in 1..(i-1) : s[j] \in WhiteSpace
           last  == CHOOSE i \in 1..Len(s) :
                      /\ s[i] \notin WhiteSpace
                      /\ \A j \in (i+1)..Len(s) : s[j] \in WhiteSpace
       IN SubSeq(s, first, last)

\* String.prototype.startsWith
startsWith(s, pre) ==
  /\ Len(pre) <= Len(s)
  /\ \A i \in 1..Len(pre) : s[i] = pre[i]

\* the text occurs in s at (1-based) position i
OccursAt(s, kw, i) ==
  /\ i + Len(kw) - 1 <= Len(s)
  /\ \A j \in 1..Len(kw) : s[i + j - 1] = kw[j]

\* String.prototype.includes
includes(s, kw) == \E i \in 1..(Len(s) - Len(kw) + 1) : OccursAt(s, kw, i)

\* the index (0-based, as RegExp match .index) of the first occurrence, -1 if none
matchIndex(s, kw) ==
  IF includes(s, kw)
  THEN (CHOOSE i \in 1..Len(s) :
          /\ OccursAt(s, kw, i)
          /\ \A j \in 1..(i-1) : ~OccursAt(s, kw, j)) - 1
  ELSE -1

\* ------------------------------------------------------------------------
\* Prompts
\* ------------------------------------------------------------------------
Min(a, b) == IF a < b THEN a ELSE b

Max(a, b) == IF a > b THEN a ELSE b

\* task.prompt.length
PromptLength(p) == Len(p.body) + p.pad

\* The text the scans of the evaluator read.  No literal the code looks for
\* (markers, prefixes, keywords) contains the filler character, so an occurrence
\* never overlaps the filler run and one filler character stands for the run;
\* it also keeps trim from removing white space the run protects.
PromptText(p) == p.body \o [i \in 1..Min(p.pad, 1) |-> Filler]

CB_OPEN == <<"<","c","b",">">>

CB_CLOSE == <<"<","/","c","b",">">>

\* ------------------------------------------------------------------------
\* Types (types.ts)
\* ------------------------------------------------------------------------
TaskType ==
  { "greeting", "status_check", "simple_qa", "scheduled_task", "text_summary",
    "format_conversion", "code_generation", "complex_analysis",
    "multi_step_planning", "creative_writing", "debugging", "research",
    "keyword_triggered", "unknown" }

\* DEFAULT_CEREBELLUM_CONFIG.forceCerebellumFor
DefaultForceCerebellumFor ==
  { "greeting", "status_check", "simple_qa", "scheduled_task", "text_summary",
    "format_conversion" }

\* DEFAULT_CEREBELLUM_CONFIG.forceCerebrumFor
DefaultForceCerebrumFor ==
  { "code_generation", "complex_analysis", "multi_step_planning",
    "creative_writing", "debugging", "research" }

\* confidence 1.0, in thousandths
ConfOne == 1000

\* DEFAULT_CEREBELLUM_CONFIG.thresholds (minConfidence 0.7 in thousandths)
DefaultThresholds ==
  [maxEstimatedTime |-> 1200, maxComplexity |-> 4, minConfidence |-> 700]

\* DEFAULT_CEREBELLUM_CONFIG
DEFAULT_CEREBELLUM_CONFIG ==
  [enabled |-> TRUE,
   thresholds |-> DefaultThresholds,
   forceCerebellumFor |-> DefaultForceCerebellumFor,
   forceCerebrumFor |-> DefaultForceCerebrumFor,
   statsEnabled |-> TRUE]

\* ------------------------------------------------------------------------
\* TaskEvaluator (task-evaluator.ts)
\* ------------------------------------------------------------------------
\* the assessment the marker rule and the prefix rule return
KeywordTriggered(task, why) ==
  [useCerebellum |-> TRUE, confidence |-> ConfOne, reason |-> <<why>>,
   taskType |-> "keyword_triggered", estimatedTokens |-> task.estimatedTokens,
   estimatedTime |-> 30, complexity |-> 2, precisionRequirement |-> "low"]

\* rule 1 of checkForcedRules: the <cb>...</cb> markers; <<>> when it does not fire
MarkerRule(task) ==
  LET text == toLowerCase(PromptText(task.prompt))
      cbStart == matchIndex(text, CB_OPEN)
      cbEnd == matchIndex(text, CB_CLOSE)
  IN IF cbStart >= 0 /\ cbEnd >= 0
     THEN IF cbStart + Len(CB_OPEN) < cbEnd
          THEN <<KeywordTriggered(task, "cb tag pair")>>
          ELSE <<>>
     ELSE IF cbStart >= 0 /\ cbEnd < 0
          THEN <<KeywordTriggered(task, "cb open tag")>>
          ELSE <<>>

\* rule 2 of checkForcedRules: the prefix keywords
PrefixRule(task) ==
  LET promptLower == toLowerCase(trim(PromptText(task.prompt)))
  IN IF \/ startsWith(promptLower, <<XIAO, NAO>>)
        \/ startsWith(promptLower, <<"c","e","r","e","b","e","l","l","u","m">>)
        \/ startsWith(promptLower, <<"c","b"," ">>)
        \/ startsWith(promptLower, <<"c","b",FWCOMMA>>)
        \/ startsWith(promptLower, <<"c","b",",">>)
     THEN <<KeywordTriggered(task, "prefix")>>
     ELSE <<>>

\* CategoryRule with the two lists consulted in the other order
CategoryRule_RemoteFirst(task, config) ==
  IF task.type \in config.forceCerebrumFor
  THEN << [useCerebellum |-> FALSE, confidence |-> ConfOne,
           reason |-> <<"forceCerebrumFor">>,
           taskType |-> task.type, estimatedTokens |-> task.estimatedTokens,
           estimatedTime |-> 300, complexity |-> 8,
           precisionRequirement |-> "high"] >>
  ELSE IF task.type \in config.forceCerebellumFor
  THEN << [useCerebellum |-> TRUE, confidence |-> ConfOne,
           reason |-> <<"forceCerebellumFor">>,
           taskType |-> task.type, estimatedTokens |-> task.estimatedTokens,
           estimatedTime |-> 30, complexity |-> 2,
           precisionRequirement |-> "low"] >>
  ELSE <<>>

\* CategoryRule with the force-remote list never consulted
CategoryRule_RemoteSkipped(task, config) ==
  IF task.type \in config.forceCerebellumFor
  THEN << [useCerebellum |-> TRUE, confidence |-> ConfOne,
           reason |-> <<"forceCerebellumFor">>,
           taskType |-> task.type, estimatedTokens |-> task.estimatedTokens,
           estimatedTime |-> 30, complexity |-> 2,
           precisionRequirement |-> "low"] >>
  ELSE <<>>

\* rules 3 and 4 of checkForcedRules: the forced category lists
CategoryRule(task, config) ==
  IF task.type \in config.forceCerebellumFor
  THEN << [useCerebellum |-> TRUE, confidence |-> ConfOne,
           reason |-> <<"forceCerebellumFor">>,
           taskType |-> task.type, estimatedTokens |-> task.estimatedTokens,
           estimatedTime |-> 30, complexity |-> 2,
           precisionRequirement |-> "low"] >>
  ELSE IF task.type \in config.forceCerebrumFor
  THEN << [useCerebellum |-> FALSE, confidence |-> ConfOne,
           reason |-> <<"forceCerebrumFor">>,
           taskType |-> task.type, estimatedTokens |-> task.estimatedTokens,
           estimatedTime |-> 300, complexity |-> 8,
           precisionRequirement |-> "high"] >>
  ELSE <<>>

\* checkForcedRules that consults the category lists before the prefix keywords
checkForcedRules_CategoryFirst(task, config) ==
  IF MarkerRule(task) # <<>> THEN MarkerRule(task)
  ELSE IF CategoryRule(task, config) # <<>> THEN CategoryRule(task, config)
  ELSE PrefixRule(task)

\* checkForcedRules whose category rule looks at forceCerebrumFor first
checkForcedRules_RemoteListFirst(task, config) ==
  IF MarkerRule(task) # <<>> THEN MarkerRule(task)
  ELSE IF PrefixRule(task) # <<>> THEN PrefixRule(task)
  ELSE CategoryRule_RemoteFirst(task, config)

\* checkForcedRules: <<assessment>> of the first rule that fires, <<>> for null
checkForcedRules(task, config) ==
  IF MarkerRule(task) # <<>> THEN MarkerRule(task)
  ELSE IF PrefixRule(task) # <<>> THEN PrefixRule(task)
  ELSE CategoryRule(task, config)

codeKeywords ==
  { <<"c","o","d","e">>,
    <<"p","r","o","g","r","a","m">>,
    <<"f","u","n","c","t","i","o","n">>,
    <<"c","l","a","s","s">>,
    <<"d","e","b","u","g">>,
    <<"e","r","r","o","r">>,
    <<"b","u","g">>,
    <<"i","m","p","l","e","m","e","n","t">>,
    <<"a","l","g","o","r","i","t","h","m">>,
    <<"d","a","t","a"," ","s","t","r","u","c","t","u","r","e">>,
    <<"a","p","i">>,
    <<"d","a","t","a","b","a","s","e">>,
    <<"r","e","f","a","c","t","o","r">>,
    <<"o","p","t","i","m","i","z","e">>,
    <<"p","e","r","f","o","r","m","a","n","c","e">> }

mathKeywords ==
  { <<"c","a","l","c","u","l","a","t","e">>,
    <<"c","o","m","p","u","t","e">>,
    <<"m","a","t","h">>,
    <<"e","q","u","a","t","i","o","n">>,
    <<"f","o","r","m","u","l","a">>,
    <<"s","o","l","v","e">>,
    <<"s","t","a","t","i","s","t","i","c","s">>,
    <<"p","r","o","b","a","b","i","l","i","t","y">>,
    <<"a","l","g","e","b","r","a">>,
    <<"c","a","l","c","u","l","u","s">>,
    <<"g","e","o","m","e","t","r","y">> }

creativeKeywords ==
  { <<"w","r","i","t","e">>,
    <<"s","t","o","r","y">>,
    <<"c","r","e","a","t","i","v","e">>,
    <<"p","o","e","m">>,
    <<"e","s","s","a","y">>,
    <<"a","r","t","i","c","l","e">>,
    <<"b","l","o","g">>,
    <<"c","o","n","t","e","n","t">>,
    <<"m","a","r","k","e","t","i","n","g">>,
    <<"c","o","p","y">>,
    <<"f","i","c","t","i","o","n">> }

analysisKeywords ==
  { <<"a","n","a","l","y","z","e">>,
    <<"a","n","a","l","y","s","i","s">>,
    <<"r","e","s","e","a","r","c","h">>,
    <<"i","n","v","e","s","t","i","g","a","t","e">>,
    <<"s","t","u","d","y">>,
    <<"r","e","v","i","e","w">>,
    <<"e","v","a","l","u","a","t","e">>,
    <<"a","s","s","e","s","s">>,
    <<"c","o","m","p","a","r","e">>,
    <<"c","o","n","t","r","a","s","t">>,
    <<"s","y","n","t","h","e","s","i","z","e">>,
    <<"c","r","i","t","i","q","u","e">> }

planningKeywords ==
  { <<"p","l","a","n">>,
    <<"s","t","r","a","t","e","g","y">>,
    <<"r","o","a","d","m","a","p">>,
    <<"s","c","h","e","d","u","l","e">>,
    <<"t","i","m","e","l","i","n","e">>,
    <<"p","r","o","j","e","c","t">>,
    <<"s","t","e","p","s">>,
    <<"p","h","a","s","e","s">>,
    <<"m","i","l","e","s","t","o","n","e">>,
    <<"g","o","a","l">> }

greetingKeywords ==
  { <<"h","e","l","l","o">>,
    <<"h","i">>,
    <<"h","e","y">>,
    <<"g","o","o","d"," ","m","o","r","n","i","n","g">>,
    <<"g","o","o","d"," ","a","f","t","e","r","n","o","o","n">>,
    <<"g","o","o","d"," ","e","v","e","n","i","n","g">>,
    <<"h","o","w"," ","a","r","e"," ","y","o","u">>,
    <<"w","h","a","t","'","s"," ","u","p">>,
    <<"g","r","e","e","t","i","n","g","s">> }

statusKeywords ==
  { <<"s","t","a","t","u","s">>,
    <<"c","h","e","c","k">>,
    <<"h","e","a","l","t","h">>,
    <<"s","t","a","t","e">>,
    <<"c","o","n","d","i","t","i","o","n">>,
    <<"p","r","o","g","r","e","s","s">>,
    <<"u","p","d","a","t","e">>,
    <<"r","e","p","o","r","t">>,
    <<"s","u","m","m","a","r","y">> }

someIncluded(kws, text) == \E kw \in kws : includes(text, kw)

\* the classification chain of analyzeTask
detectType(task, a, promptLength) ==
  IF a.isGreeting /\ promptLength < 50 THEN "greeting"
  ELSE IF a.isStatusQuery /\ promptLength < 100 THEN "status_check"
  ELSE IF a.hasCode THEN "code_generation"
  ELSE IF a.hasMath
       THEN (IF task.isScheduledTask THEN "scheduled_task" ELSE "complex_analysis")
  ELSE IF a.hasPlanning /\ promptLength > 200 THEN "multi_step_planning"
  ELSE IF a.hasCreative /\ promptLength > 150 THEN "creative_writing"
  ELSE IF a.hasAnalysis /\ promptLength > 300 THEN "complex_analysis"
  ELSE IF promptLength < 150 /\ ~a.hasCode /\ ~a.hasMath THEN "simple_qa"
  ELSE IF task.isScheduledTask THEN "scheduled_task"
  ELSE "unknown"

analyzeTask(task) ==
  LET prompt == toLowerCase(PromptText(task.prompt))
      promptLength == PromptLength(task.prompt)
      m == [hasCode |-> someIncluded(codeKeywords, prompt) \/ task.hasCode,
            hasMath |-> someIncluded(mathKeywords, prompt) \/ task.hasMath,
            hasCreative |-> someIncluded(creativeKeywords, prompt),
            hasAnalysis |-> someIncluded(analysisKeywords, prompt),
            hasPlanning |-> someIncluded(planningKeywords, prompt),
            isGreeting |-> someIncluded(greetingKeywords, prompt),
            isStatusQuery |-> someIncluded(statusKeywords, prompt)]
  IN [hasCode |-> m.hasCode, hasMath |-> m.hasMath,
      hasCreative |-> m.hasCreative, hasAnalysis |-> m.hasAnalysis,
      hasPlanning |-> m.hasPlanning, isGreeting |-> m.isGreeting,
      isStatusQuery |-> m.isStatusQuery,
      detectedType |-> detectType(task, m, promptLength),
      promptLength |-> promptLength]

\* the typeComplexity table of calculateComplexity (?? 5 for a missing key)
typeComplexity(t) ==
  CASE t = "greeting" -> 1
    [] t = "status_check" -> 2
    [] t = "simple_qa" -> 2
    [] t = "scheduled_task" -> 3
    [] t = "text_summary" -> 3
    [] t = "format_conversion" -> 2
    [] t = "code_generation" -> 8
    [] t = "complex_analysis" -> 7
    [] t = "multi_step_planning" -> 8
    [] t = "creative_writing" -> 6
    [] t = "debugging" -> 7
    [] t = "research" -> 8
    [] t = "unknown" -> 5
    [] OTHER -> 5

Bump(cond) == IF cond THEN 1 ELSE 0

\* calculateComplexity that returns the sum as it is, without the clamp to 1..10
calculateComplexity_NoClamp(task, analysis) ==
  typeComplexity(analysis.detectedType)
  + Bump(analysis.promptLength > 2000)
  + Bump(analysis.promptLength > 5000)
  + Bump(analysis.hasCode)
  + Bump(analysis.hasMath)
  + Bump(task.historyLength > 10)
  + Bump(task.historyLength > 30)
  + Bump(task.estimatedTokens > 2000)
  + Bump(task.estimatedTokens > 4000)

\* calculateComplexity that takes a point off for a prompt over 2000 characters
calculateComplexity_LongDiscount(task, analysis) ==
  LET complexity ==
        typeComplexity(analysis.detectedType)
        - Bump(analysis.promptLength > 2000)
        + Bump(analysis.promptLength > 5000)
        + Bump(analysis.hasCode)
        + Bump(analysis.hasMath)
        + Bump(task.historyLength > 10)
        + Bump(task.historyLength > 30)
        + Bump(task.estimatedTokens > 2000)
        + Bump(task.estimatedTokens > 4000)
  IN Min(10, Max(1, complexity))

calculateComplexity(task, analysis) ==
  LET complexity ==
        typeComplexity(analysis.detectedType)
        + Bump(analysis.promptLength > 2000)
        + Bump(analysis.promptLength > 5000)
        + Bump(analysis.hasCode)
        + Bump(analysis.hasMath)
        + Bump(task.historyLength > 10)
        + Bump(task.historyLength > 30)
        + Bump(task.estimatedTokens > 2000)
        + Bump(task.estimatedTokens > 4000)
  IN Min(10, Max(1, complexity))

assessPrecisionRequirement(task, analysis) ==
  IF analysis.hasCode \/ analysis.hasMath THEN "high"
  ELSE IF analysis.hasAnalysis \/ analysis.hasCreative THEN "medium"
  ELSE IF task.type = "simple_qa" \/ task.type = "greeting" THEN "low"
  ELSE "medium"

\* Math.round of the rational num/den (num >= 0): halves round up
MathRound(num, den) == (2 * num + den) \div (2 * den)

\* estimateExecutionTime: complexity*30, plus tokens/1000*60 over 1000 tokens,
\* times 0.6 when the local backend is enabled; computed in thousandths
estimateExecutionTime(task, complexity, config) ==
  LET base == complexity * 30000
      time == IF task.estimatedTokens > 1000
              THEN base + task.estimatedTokens * 60
              ELSE base
  IN IF config.enabled
     THEN MathRound(time * 6, 10000)
     ELSE MathRound(time, 1000)

\* the decimal (a multiple of 0.1) a confidence value stands for
Nominal(c) == ((c + 99) \div 100) * 100

\* confidence + d in IEEE-754 double arithmetic, in thousandths: the sums the
\* code can form are exact up to 0.7, and from 0.8 on they are the double just
\* below the decimal (0.7 + 0.1 is 0.7999999999999999), written n*100 - 1
ConfAdd(c, d) ==
  LET n == Nominal(c) + d
  IN IF n >= 800 THEN n - 1 ELSE n

\* calculateConfidence that returns the sum as it is, without Math.min(1, ...)
calculateConfidence_NoClamp(task, analysis, complexity) ==
  LET c0 == 500
      c1 == IF analysis.detectedType # "unknown" THEN ConfAdd(c0, 200) ELSE c0
      c2 == IF complexity <= 3 THEN ConfAdd(c1, 200)
            ELSE IF complexity >= 8 THEN ConfAdd(c1, -100)
            ELSE c1
      c3 == IF analysis.promptLength < 100 THEN ConfAdd(c2, 100) ELSE c2
  IN IF task.isHighFrequency THEN ConfAdd(c3, 100) ELSE c3

calculateConfidence(task, analysis, complexity) ==
  LET c0 == 500
      c1 == IF analysis.detectedType # "unknown" THEN ConfAdd(c0, 200) ELSE c0
      c2 == IF complexity <= 3 THEN ConfAdd(c1, 200)
            ELSE IF complexity >= 8 THEN ConfAdd(c1, -100)
            ELSE c1
      c3 == IF analysis.promptLength < 100 THEN ConfAdd(c2, 100) ELSE c2
      c4 == IF task.isHighFrequency THEN ConfAdd(c3, 100) ELSE c3
  IN Min(ConfOne, Max(0, c4))

\* shouldUseCerebellum with the scheduled-task shortcut taken before the gates
shouldUseCerebellum_ShortcutFirst(task, complexity, precisionRequirement, estimatedTime, confidence, config) ==
  IF task.isScheduledTask /\ estimatedTime < 600 THEN TRUE
  ELSE IF complexity > config.thresholds.maxComplexity THEN FALSE
  ELSE IF estimatedTime > config.thresholds.maxEstimatedTime THEN FALSE
  ELSE IF confidence < config.thresholds.minConfidence THEN FALSE
  ELSE IF precisionRequirement = "high" THEN FALSE
  ELSE IF task.isHighFrequency /\ complexity <= 3 THEN TRUE
  ELSE complexity <= 5

shouldUseCerebellum(task, complexity, precisionRequirement, estimatedTime, confidence, config) ==
  IF complexity > config.thresholds.maxComplexity THEN FALSE
  ELSE IF estimatedTime > config.thresholds.maxEstimatedTime THEN FALSE
  ELSE IF confidence < config.thresholds.minConfidence THEN FALSE
  ELSE IF precisionRequirement = "high" THEN FALSE
  ELSE IF task.isScheduledTask /\ estimatedTime < 600 THEN TRUE
  ELSE IF task.isHighFrequency /\ complexity <= 3 THEN TRUE
  ELSE complexity <= 5

\* the sequence of the tags whose condition holds, in the order given
Tags(pairs) ==
  LET F[i \in 0..Len(pairs)] ==
        IF i = 0 THEN <<>>
        ELSE IF pairs[i][1] THEN Append(F[i-1], pairs[i][2]) ELSE F[i-1]
  IN F[Len(pairs)]

generateReason(useCerebellum, task, complexity, precisionRequirement, estimatedTime, confidence, config) ==
  IF useCerebellum
  THEN <<"Using cerebellum">> \o
       Tags(<< <<complexity <= 3, "low complexity">>,
               <<task.isScheduledTask /\ estimatedTime < 600,
                 "scheduled task under 10min">>,
               <<task.isHighFrequency, "high frequency pattern">>,
               <<precisionRequirement = "low", "low precision requirement">> >>)
  ELSE <<"Using cerebrum">> \o
       Tags(<< <<complexity > config.thresholds.maxComplexity, "high complexity">>,
               <<estimatedTime > config.thresholds.maxEstimatedTime,
                 "long execution time">>,
               <<precisionRequirement = "high", "high precision requirement">>,
               <<confidence < config.thresholds.minConfidence, "low confidence">> >>)

\* steps 2 to 8 of evaluate: the heuristic path
heuristicAssessment(task, config) ==
  LET analysis == analyzeTask(task)
      complexity == calculateComplexity(task, analysis)
      precisionRequirement == assessPrecisionRequirement(task, analysis)
      estimatedTime == estimateExecutionTime(task, complexity, config)
      confidence == calculateConfidence(task, analysis, complexity)
      useCerebellum == shouldUseCerebellum(task, complexity, precisionRequirement,
                                           estimatedTime, confidence, config)
  IN [useCerebellum |-> useCerebellum, confidence |-> confidence,
      reason |-> generateReason(useCerebellum, task, complexity,
                                precisionRequirement, estimatedTime, confidence,
                                config),
      taskType |-> analysis.detectedType,
      estimatedTokens |-> task.estimatedTokens,
      estimatedTime |-> estimatedTime, complexity |-> complexity,
      precisionRequirement |-> precisionRequirement]

evaluate(task, config) ==
  LET forcedDecision == checkForcedRules(task, config)
  IN IF forcedDecision # <<>>
     THEN forcedDecision[1]
     ELSE heuristicAssessment(task, config)

\* ------------------------------------------------------------------------
\* CerebellumKernel (cerebellum-kernel.ts): the responses of generate
\* ------------------------------------------------------------------------
\* Date.now() - startTime, in milliseconds
Durations == { 7 }

\* prompt_eval_count and eval_count of a generate reply
Usages == { [input |-> 2, output |-> 3, total |-> 5] }

E_UNAVAILABLE == "Ollama service is not available. Please ensure Ollama is running."

E_NO_MODEL == "Model is not available. Run 'ollama pull' first."

E_API == "Ollama API error"

E_NETWORK == "fetch failed"

\* the failed CerebellumResponse of generate; an absent field is <<>>
FailedResponse(error, durationMs) ==
  [text |-> "", success |-> FALSE, error |-> <<error>>,
   durationMs |-> durationMs, usage |-> <<>>]

\* the successful CerebellumResponse of generate
SuccessResponse(text, durationMs, usage) ==
  [text |-> text, success |-> TRUE, error |-> <<>>,
   durationMs |-> durationMs, usage |-> <<usage>>]

\* ------------------------------------------------------------------------
\* StatsCollector (stats-collector.ts): the stats document
\* ------------------------------------------------------------------------
MAX_ENTRIES == 10000

KEPT_ENTRIES == 5000

\* The entry log, data.entries.  A log read from a file that was there when
\* the collector was built can be long, so the log is kept as the number of
\* entries it had then (old) followed by the entries appended since (recent).
\* The old entries are decisions for the remote backend that never got an
\* outcome; the one at index i of k, OldEntry(i, k), counts its req back from 0.
\* The array the code holds is LogSeq of the log.
EmptyLog == [old |-> 0, recent |-> <<>>]

\* defaultData of loadData, emptyData of reset (lastUpdated is not modelled)
EmptyStatsData ==
  [entries |-> EmptyLog, totalRequests |-> 0, successfulRequests |-> 0,
   failedRequests |-> 0, totalDurationMs |-> 0, tokensSaved |-> 0]

\* The entry recordDecision appends.  req names the request that appended it
\* and filledBy the request that back-filled it (0: none); both are history
\* the code does not keep.
NewEntry(decision, req) ==
  [target |-> decision.target, taskType |-> decision.taskType,
   success |-> "unset", error |-> <<>>, durationMs |-> <<>>,
   tokensInput |-> <<>>, tokensOutput |-> <<>>, req |-> req, filledBy |-> 0]

\* an entry written before the collector was built
OldEntry(i, k) ==
  NewEntry([target |-> "cerebrum", taskType |-> "unknown"], i - k)

\* entries.length
LogLen(log) == log.old + Len(log.recent)

\* entries[i - 1], for i in 1..LogLen(log)
LogAt(log, i) ==
  IF i <= log.old THEN OldEntry(i, log.old) ELSE log.recent[i - log.old]

\* the array itself
LogSeq(log) == [i \in 1..LogLen(log) |-> LogAt(log, i)]

\* entries.push(entry)
LogPush(log, entry) == [log EXCEPT !.recent = Append(@, entry)]

\* Array.prototype.slice(-n)
sliceLast(log, n) ==
  IF LogLen(log) <= n THEN log
  ELSE IF Len(log.recent) >= n
  THEN [old |-> 0,
        recent |-> SubSeq(log.recent, Len(log.recent) - n + 1, Len(log.recent))]
  ELSE [log EXCEPT !.old = n - Len(log.recent)]

\* recordDecision with the entry cap dropped
pushDecision_NoCap(data, decision, req) ==
  [data EXCEPT !.entries = LogPush(@, NewEntry(decision, req)),
               !.totalRequests = @ + 1]

\* recordDecision that counts only the decisions routed to the local backend
pushDecision_LocalOnly(data, decision, req) ==
  LET pushed == LogPush(data.entries, NewEntry(decision, req))
  IN [data EXCEPT
        !.entries = IF LogLen(pushed) > MAX_ENTRIES
                    THEN sliceLast(pushed, KEPT_ENTRIES) ELSE pushed,
        !.totalRequests = IF decision.target = "cerebellum" THEN @ + 1 ELSE @]

\* recordDecision, from the push to the truncation
pushDecision(data, decision, req) ==
  LET pushed == LogPush(data.entries, NewEntry(decision, req))
  IN [data EXCEPT
        !.entries = IF LogLen(pushed) > MAX_ENTRIES
                    THEN sliceLast(pushed, KEPT_ENTRIES) ELSE pushed,
        !.totalRequests = @ + 1]

\* lastEntry && lastEntry.target === "cerebellum": only an entry appended
\* since the collector was built can be one
lastIsLocal(log) ==
  /\ log.recent # <<>>
  /\ log.recent[Len(log.recent)].target = "cerebellum"

\* recordSuccess, from the counters to the back-fill of the last entry
applySuccess(data, response, req) ==
  LET n == Len(data.entries.recent)
      counted ==
        [data EXCEPT
           !.successfulRequests = @ + 1,
           !.totalDurationMs = @ + response.durationMs,
           !.tokensSaved = IF response.usage # <<>>
                           THEN @ + response.usage[1].total ELSE @]
  IN IF lastIsLocal(data.entries)
     THEN [counted EXCEPT
             !.entries.recent[n] =
               [@ EXCEPT
                  !.success = "true",
                  !.durationMs = <<response.durationMs>>,
                  !.tokensInput = IF response.usage # <<>>
                                  THEN <<response.usage[1].input>> ELSE <<>>,
                  !.tokensOutput = IF response.usage # <<>>
                                   THEN <<response.usage[1].output>> ELSE <<>>,
                  !.filledBy = req]]
     ELSE counted

\* recordFailure, from the counter to the back-fill of the last entry
applyFailure(data, error, req) ==
  LET n == Len(data.entries.recent)
      counted == [data EXCEPT !.failedRequests = @ + 1]
  IN IF lastIsLocal(data.entries)
     THEN [counted EXCEPT
             !.entries.recent[n] =
               [@ EXCEPT !.success = "false", !.error = error, !.filledBy = req]]
     ELSE counted

RECURSIVE SumDurations(_, _)
\* the sum of entry.durationMs ?? 0 over the entries at the indices idx
SumDurations(entries, idx) ==
  IF idx = {} THEN 0
  ELSE LET i == CHOOSE j \in idx : TRUE
           d == IF entries[i].durationMs = <<>> THEN 0 ELSE entries[i].durationMs[1]
       IN d + SumDurations(entries, idx \ {i})

\* a quotient a / b of getStats, kept as the pair of its terms
Ratio(a, b) == <<a, b>>

\* a getStats that reports the lifetime totals from the log it retains
statsSnapshot_TotalsFromLog(data) ==
  [totalRequests |-> LogLen(data.entries),
   successfulRequests |-> data.successfulRequests,
   failedRequests |-> data.failedRequests,
   averageResponseTime |-> Ratio(0, 1),
   tokensSaved |-> data.tokensSaved,
   costSaved |-> Ratio(data.tokensSaved * 3, 100000),
   taskTypeStats |->
     [t \in IF LogLen(data.entries) > 0 THEN {"unknown"} ELSE {} |->
        [count |-> LogLen(data.entries), successRate |-> Ratio(0, 1),
         averageTime |-> Ratio(0, 1)]]]

\* getStats: the snapshot computed from the loaded document.  The old
\* entries count under their type and, having no outcome, add no success.
statsSnapshot(data) ==
  LET entries == data.entries.recent
      old == data.entries.old
      oldType == OldEntry(1, 1).taskType
      types == { entries[i].taskType : i \in 1..Len(entries) }
                 \cup (IF old > 0 THEN { oldType } ELSE {})
      ofType(t) == { i \in 1..Len(entries) : entries[i].taskType = t }
      count(t) == Cardinality(ofType(t)) + (IF t = oldType THEN old ELSE 0)
      okOfType(t) == { i \in ofType(t) : entries[i].success = "true" }
  IN [totalRequests |-> data.totalRequests,
      successfulRequests |-> data.successfulRequests,
      failedRequests |-> data.failedRequests,
      averageResponseTime |->
        IF data.successfulRequests > 0
        THEN Ratio(data.totalDurationMs, data.successfulRequests)
        ELSE Ratio(0, 1),
      tokensSaved |-> data.tokensSaved,
      costSaved |-> Ratio(data.tokensSaved * 3, 100000),
      taskTypeStats |->
        [t \in types |->
           [count |-> count(t),
            successRate |-> Ratio(Cardinality(okOfType(t)), count(t)),
            averageTime |->
              IF Cardinality(okOfType(t)) > 0
              THEN Ratio(SumDurations(entries, okOfType(t)),
                         Cardinality(okOfType(t)))
              ELSE Ratio(0, 1)]]]

\* The storage location.  kind is "missing" (no file), "unreadable" (readFile
\* fails), "garbage" (JSON.parse throws), "null" (parses to null), "object"
\* (parses to a value without an entries list, such as {}) or "data".
StoredData(data) == [kind |-> "data", data |-> data]

StoredOther(kind) == [kind |-> kind, data |-> EmptyStatsData]

\* JSON.stringify of a stats document, as the content writeFile is given
stringify(data) == StoredData(data)

\* What the try block of loadData yields for a content: "throw" (the catch
\* block builds defaultData), or the parsed value: "null", an "object"
\* without entries, or a StatsData document
parseContent(content) ==
  CASE content.kind \in {"missing", "unreadable", "garbage"} ->
         [outcome |-> "throw", data |-> EmptyStatsData]
    [] content.kind = "null" -> [outcome |-> "null", data |-> EmptyStatsData]
    [] content.kind = "object" -> [outcome |-> "object", data |-> EmptyStatsData]
    [] OTHER -> [outcome |-> "data", data |-> content.data]

\* an object of the heap: shape "data" is a StatsData, shape "object" a parsed
\* value that has no entries list
HeapData(data) == [shape |-> "data", data |-> data]

HeapObject == [shape |-> "object", data |-> EmptyStatsData]

\* ------------------------------------------------------------------------
\* DualKernelRouter (router.ts): pure parts
\* ------------------------------------------------------------------------
\* the switch of executeWithCerebellum: the kernel method a task type goes to
dispatchMethod(taskType) ==
  CASE taskType \in {"greeting", "simple_qa", "status_check"} -> "quickAnswer"
    [] taskType = "text_summary" -> "summarize"
    [] taskType = "format_conversion" -> "convertFormat"
    [] OTHER -> "generate"

\* the synthetic assessment of forceCerebellum
forcedCerebellumAssessment(t) ==
  [useCerebellum |-> TRUE, confidence |-> ConfOne,
   reason |-> <<"Manual override to cerebellum">>, taskType |-> t.type,
   estimatedTokens |-> t.estimatedTokens, estimatedTime |-> 60,
   complexity |-> 3, precisionRequirement |-> "low"]

\* the synthetic assessment of forceCerebrum
forcedCerebrumAssessment(t) ==
  [useCerebellum |-> FALSE, confidence |-> ConfOne,
   reason |-> <<"Manual override to cerebrum">>, taskType |-> t.type,
   estimatedTokens |-> t.estimatedTokens, estimatedTime |-> 300,
   complexity |-> 7, precisionRequirement |-> "high"]

\* what route returns; an absent field is <<>>
RouteResult(target, a, response, fallbackReason) ==
  [target |-> target, assessment |-> a, cerebellumResponse |-> response,
   fallbackReason |-> fallbackReason]

\* a task with no hint set
PlainTask(type, body, pad) ==
  [type |-> type, prompt |-> [body |-> body, pad |-> pad],
   hasCode |-> FALSE, hasMath |-> FALSE, estimatedTokens |-> 100,
   isHighFrequency |-> FALSE, historyLength |-> 0, isScheduledTask |-> FALSE]

\* ------------------------------------------------------------------------
\* State
\* ------------------------------------------------------------------------
VARIABLES
  config,               \* the CerebellumConfig the components were constructed with
  task,                 \* the TaskInfo handed to TaskEvaluator.evaluate
  assessment,           \* <<>> before that call, <<TaskAssessment>> after it
  enableFallback,       \* DualKernelRouter.enableFallback
  cerebellumAvailable,  \* DualKernelRouter.cerebellumAvailable, the cached flag
  availabilityCheck,    \* "pending" until the constructor's checkAvailability ends
  cache,                \* StatsCollector.cache: a heap reference, 0 for null
  heap,                 \* the objects loadData and reset have created
  file,                 \* the content of the storage location
  writable,             \* whether writeFile to the storage location succeeds
  calls,                \* the call each caller has in progress
  nextReq,              \* the number the next call gets
  decisionCalls         \* recordDecision calls returned since the last reset

vars ==
  <<config, task, assessment, enableFallback, cerebellumAvailable,
    availabilityCheck, cache, heap, file, writable, calls, nextReq,
    decisionCalls>>

evaluatorVars == <<task, assessment>>

routerVars == <<enableFallback, cerebellumAvailable, availabilityCheck>>

Callers == 1..NumCallers

\* ------------------------------------------------------------------------
\* Calls in progress
\* ------------------------------------------------------------------------
\* op is the public method called, sop the StatsCollector method it is in,
\* pc the await it is suspended at:
\*   st_read   loadData awaits readFile
\*   st_mkdir  saveData awaits ensureDir
\*   st_write  saveData awaits writeFile
\*   k_gen     executeWithCerebellum awaits the kernel
\* and "done" / "thrown" once the call has returned / has raised an error.
\* after is the method the caller called before this one ("none": no call).
IdleCall ==
  [op |-> "none", pc |-> "idle", sop |-> "none", req |-> 0, task |-> <<>>,
   assessment |-> <<>>, decision |-> <<>>, availableRead |-> FALSE,
   data |-> 0, content |-> <<>>, snapshot |-> <<>>, response |-> <<>>,
   result |-> <<>>, method |-> "none", backendCalls |-> 0, trace |-> <<>>,
   after |-> "none"]

Returned(cr) == cr.pc \in {"idle", "done", "thrown"}

Done(cr, result) ==
  [cr EXCEPT !.pc = "done", !.sop = "none", !.result = <<result>>,
             !.trace = Append(@, "return")]

Notify(cr, event) == [cr EXCEPT !.trace = Append(@, event)]

\* executeWithCerebellum: up to the first await of generate
executeWithCerebellum(cr) ==
  [cr EXCEPT !.pc = "k_gen", !.sop = "none",
             !.method = dispatchMethod(cr.assessment[1].taskType),
             !.backendCalls = @ + 1,
             !.trace = Append(@, "generate")]

\* route that gives a failed local call a second try before it falls back
routeAfterFailure_Retry(cr) ==
  IF cr.backendCalls < 2
  THEN [cr EXCEPT !.pc = "k_gen", !.sop = "none",
                  !.method = dispatchMethod(cr.assessment[1].taskType),
                  !.backendCalls = @ + 1,
                  !.trace = Append(@, "generate")]
  ELSE IF enableFallback
  THEN Done(Notify(Notify(cr, "onCerebellumFailure"), "onFallbackToCerebrum"),
            RouteResult("cerebrum", cr.assessment[1], <<>>, cr.response[1].error))
  ELSE Done(Notify(cr, "onCerebellumFailure"),
            RouteResult("cerebellum", cr.assessment[1], cr.response, <<>>))

\* route, after recordFailure has returned
routeAfterFailure(cr) ==
  IF enableFallback
  THEN Done(Notify(Notify(cr, "onCerebellumFailure"), "onFallbackToCerebrum"),
            RouteResult("cerebrum", cr.assessment[1], <<>>, cr.response[1].error))
  ELSE Done(Notify(cr, "onCerebellumFailure"),
            RouteResult("cerebellum", cr.assessment[1], cr.response, <<>>))

\* route, after recordDecision has returned
routeAfterDecision(cr) ==
  IF cr.decision[1].target = "cerebellum"
  THEN executeWithCerebellum(cr)
  ELSE Done(cr, RouteResult("cerebrum", cr.assessment[1], <<>>, <<>>))

\* The rest of the public method, from the return of the StatsCollector method
\* cr.sop to the next await or to the return of the call.
Continue(cr) ==
  CASE cr.op = "route" /\ cr.sop = "recordDecision" -> routeAfterDecision(cr)
    [] cr.op = "route" /\ cr.sop = "recordSuccess" ->
         Done(Notify(cr, "onCerebellumSuccess"),
              RouteResult("cerebellum", cr.assessment[1], cr.response, <<>>))
    [] cr.op = "route" /\ cr.sop = "recordFailure" -> routeAfterFailure(cr)
    [] cr.op = "forceCerebellum" /\ cr.sop = "recordDecision" ->
         executeWithCerebellum(cr)
    [] cr.op = "forceCerebellum" /\ cr.sop # "recordDecision" ->
         Done(cr, cr.response[1])
    [] cr.op = "forceCerebrum" ->
         Done(cr, [target |-> "cerebrum", assessment |-> cr.assessment[1]])
    [] cr.op = "getStats" -> Done(cr, cr.snapshot[1])
    [] cr.op = "getStatus" ->
         Done(cr, [enabled |-> config.enabled, available |-> cerebellumAvailable,
                   stats |-> cr.snapshot[1]])
    [] OTHER -> Done(cr, "void")

\* the router, the collector and the storage before any use: the values the
\* constructors set and an absent stats file
ComponentsFresh ==
  /\ enableFallback = TRUE
  /\ cerebellumAvailable = FALSE
  /\ availabilityCheck = "pending"
  /\ cache = 0
  /\ heap = <<>>
  /\ file = StoredOther("missing")
  /\ writable = TRUE
  /\ calls = [c \in Callers |-> IdleCall]
  /\ nextReq = 1
  /\ decisionCalls = 0

\* ------------------------------------------------------------------------
\* StatsCollector: the steps of its methods
\* ------------------------------------------------------------------------
\* a router that does not await the StatsCollector method: it goes on before
\* the method has completed
ReturnFromStats_Unawaited(c, cr) ==
  /\ calls' = [calls EXCEPT ![c] = Notify(Continue(cr), cr.sop)]
  /\ decisionCalls' = CASE cr.sop = "recordDecision" -> decisionCalls + 1
                        [] cr.sop = "reset" -> 0
                        [] OTHER -> decisionCalls

\* the StatsCollector method cr.sop returns to its caller
ReturnFromStats(c, cr) ==
  /\ calls' = [calls EXCEPT ![c] = Continue(Notify(cr, cr.sop))]
  /\ decisionCalls' = CASE cr.sop = "recordDecision" -> decisionCalls + 1
                        [] cr.sop = "reset" -> 0
                        [] OTHER -> decisionCalls

\* the StatsCollector method raises a TypeError, which the public method
\* does not catch
Throw(c, cr) ==
  /\ calls' = [calls EXCEPT ![c] = [Notify(cr, "throw") EXCEPT !.pc = "thrown"]]
  /\ UNCHANGED decisionCalls

\* the update a record method makes to the document it loaded
Mutated(cr, data) ==
  CASE cr.sop = "recordDecision" -> pushDecision(data, cr.decision[1], cr.req)
    [] cr.sop = "recordSuccess" -> applySuccess(data, cr.response[1], cr.req)
    [] OTHER -> applyFailure(data, cr.response[1].error, cr.req)

\* The method continues with the value loadData returned: the object ref of
\* newHeap (0: null).  A value that is null or has no entries list makes the
\* method raise; getStats returns its snapshot; a record method updates the
\* object and goes on to saveData, up to the await of ensureDir.
AfterLoad(c, cr, ref, newHeap) ==
  IF ref = 0 \/ newHeap[ref].shape # "data"
  THEN /\ heap' = newHeap
       /\ Throw(c, cr)
  ELSE IF cr.sop = "getStats"
  THEN /\ heap' = newHeap
       /\ ReturnFromStats(c, [cr EXCEPT
                                !.snapshot = <<statsSnapshot(newHeap[ref].data)>>])
  ELSE /\ heap' = [newHeap EXCEPT ![ref].data = Mutated(cr, @)]
       /\ calls' = [calls EXCEPT ![c] = [cr EXCEPT !.pc = "st_mkdir", !.data = ref]]
       /\ UNCHANGED decisionCalls

\* A StatsCollector method is called: it runs to its first await (or returns).
\* The record methods and saveData return at once when stats are disabled;
\* reset builds emptyData and goes to saveData; the others call loadData.
EnterStats(c, cr0, sop) ==
  LET cr == [cr0 EXCEPT !.sop = sop]
  IN IF sop # "getStats" /\ ~config.statsEnabled
     THEN /\ ReturnFromStats(c, cr)
          /\ UNCHANGED <<cache, heap>>
     ELSE IF sop = "reset"
     THEN /\ heap' = Append(heap, HeapData(EmptyStatsData))
          /\ calls' = [calls EXCEPT ![c] =
                         [cr EXCEPT !.pc = "st_mkdir", !.data = Len(heap) + 1]]
          /\ UNCHANGED <<cache, decisionCalls>>
     ELSE IF cache # 0
     THEN /\ AfterLoad(c, cr, cache, heap)
          /\ UNCHANGED cache
     ELSE /\ calls' = [calls EXCEPT ![c] = [cr EXCEPT !.pc = "st_read"]]
          /\ UNCHANGED <<cache, heap, decisionCalls>>

\* loadData: readFile ends; the content is parsed, or defaultData is built,
\* and the cache is set to the value, whatever it holds by now
StatsReadDone(c) ==
  /\ calls[c].pc = "st_read"
  /\ LET p == parseContent(file)
         newHeap == CASE p.outcome = "null" -> heap
                      [] p.outcome = "object" -> Append(heap, HeapObject)
                      [] p.outcome = "throw" -> Append(heap, HeapData(EmptyStatsData))
                      [] OTHER -> Append(heap, HeapData(p.data))
         ref == IF p.outcome = "null" THEN 0 ELSE Len(heap) + 1
     IN /\ cache' = ref
        /\ AfterLoad(c, calls[c], ref, newHeap)
  /\ UNCHANGED <<config, evaluatorVars, routerVars, file, writable, nextReq>>

\* saveData: ensureDir ends (its failure is ignored); the cache is set to the
\* document saved and writeFile is given its JSON text
StatsMkdirDone(c) ==
  /\ calls[c].pc = "st_mkdir"
  /\ cache' = calls[c].data
  /\ calls' = [calls EXCEPT ![c] =
                 [@ EXCEPT !.pc = "st_write",
                           !.content = <<stringify(heap[calls[c].data].data)>>]]
  /\ UNCHANGED <<config, evaluatorVars, routerVars, heap, file, writable, nextReq,
                 decisionCalls>>

\* saveData: writeFile ends (its failure is ignored) and the method returns
StatsWriteDone(c) ==
  /\ calls[c].pc = "st_write"
  /\ file' = IF writable THEN calls[c].content[1] ELSE file
  /\ ReturnFromStats(c, [calls[c] EXCEPT !.content = <<>>])
  /\ UNCHANGED <<config, evaluatorVars, routerVars, cache, heap, writable, nextReq>>

\* ------------------------------------------------------------------------
\* CerebellumKernel.generate: its steps
\* ------------------------------------------------------------------------
\* generate returns the response; route and forceCerebellum record it
Respond(c, cr, response) ==
  /\ EnterStats(c, [cr EXCEPT !.response = <<response>>],
                IF response.success THEN "recordSuccess" ELSE "recordFailure")
  /\ UNCHANGED <<config, evaluatorVars, routerVars, file, writable, nextReq>>

\* What generate returns.  It awaits isAvailable, isModelAvailable and the
\* generate fetch in turn; none of them reads or writes the router or the
\* collector, so the three awaits are one step whose outcome is the first
\* that fails, or the reply.
generate(outcome, d, u) ==
  CASE outcome = "unavailable" -> FailedResponse(E_UNAVAILABLE, d)
    [] outcome = "no_model" -> FailedResponse(E_NO_MODEL, d)
    [] outcome = "http_error" -> FailedResponse(E_API, d)
    [] outcome = "network_error" -> FailedResponse(E_NETWORK, d)
    [] OTHER -> SuccessResponse("text", d, u)

\* the outcomes the backend is driven through
GenerateOutcomes == { "ok", "unavailable", "http_error" }

\* generate returns
KernelGenerate(c) ==
  /\ calls[c].pc = "k_gen"
  /\ \E outcome \in GenerateOutcomes, d \in Durations, u \in Usages :
       Respond(c, calls[c], generate(outcome, d, u))

\* ------------------------------------------------------------------------
\* DualKernelRouter: its methods, up to their first await
\* ------------------------------------------------------------------------
\* the tasks the router is given
RouteTasks ==
  { PlainTask("greeting", <<"h","i">>, 0),
    PlainTask("code_generation", <<"c","o","d","e">>, 0) }

\* the tasks the manual overrides are given
ForceTasks == { PlainTask("text_summary", <<"h","i">>, 0) }

CanStart(c, maxCalls) == Returned(calls[c]) /\ nextReq <= maxCalls

\* the caller's next call: its previous call has returned
NewCall(c, op) ==
  [IdleCall EXCEPT !.op = op, !.req = nextReq, !.after = calls[c].op]

\* the constructor's checkAvailability ends
CheckAvailability ==
  /\ availabilityCheck = "pending"
  /\ availabilityCheck' = "done"
  /\ cerebellumAvailable' \in BOOLEAN
  /\ UNCHANGED <<config, evaluatorVars, enableFallback, cache, heap, file,
                 writable, calls, nextReq, decisionCalls>>

\* route whose evaluator keeps the assessment of the caller's previous route
\* call and returns it again
Route_Memo(c, maxCalls) ==
  /\ CanStart(c, maxCalls)
  /\ \E t \in RouteTasks :
       LET a == IF calls[c].op = "route" THEN calls[c].assessment[1]
                ELSE evaluate(t, config)
           useCerebellum == a.useCerebellum /\ config.enabled /\ cerebellumAvailable
           decision == [target |-> IF useCerebellum THEN "cerebellum" ELSE "cerebrum",
                        taskType |-> a.taskType, isManualOverride |-> FALSE]
       IN EnterStats(c, [NewCall(c, "route") EXCEPT
                           !.task = <<t>>, !.assessment = <<a>>,
                           !.decision = <<decision>>,
                           !.availableRead = cerebellumAvailable,
                           !.trace = <<"onRoutingDecision">>],
                     "recordDecision")
  /\ nextReq' = nextReq + 1
  /\ UNCHANGED <<config, evaluatorVars, routerVars, file, writable>>

\* route(task)
Route(c, maxCalls) ==
  /\ CanStart(c, maxCalls)
  /\ \E t \in RouteTasks :
       LET a == evaluate(t, config)
           useCerebellum == a.useCerebellum /\ config.enabled /\ cerebellumAvailable
           decision == [target |-> IF useCerebellum THEN "cerebellum" ELSE "cerebrum",
                        taskType |-> a.taskType, isManualOverride |-> FALSE]
       IN EnterStats(c, [NewCall(c, "route") EXCEPT
                           !.task = <<t>>, !.assessment = <<a>>,
                           !.decision = <<decision>>,
                           !.availableRead = cerebellumAvailable,
                           !.trace = <<"onRoutingDecision">>],
                     "recordDecision")
  /\ nextReq' = nextReq + 1
  /\ UNCHANGED <<config, evaluatorVars, routerVars, file, writable>>

\* forceCerebellum(task)
ForceCerebellum(c) ==
  /\ CanStart(c, MaxOps)
  /\ \E t \in ForceTasks :
       LET a == forcedCerebellumAssessment(t)
           decision == [target |-> "cerebellum", taskType |-> a.taskType,
                        isManualOverride |-> TRUE]
       IN EnterStats(c, [NewCall(c, "forceCerebellum") EXCEPT
                           !.task = <<t>>, !.assessment = <<a>>,
                           !.decision = <<decision>>,
                           !.trace = <<"onRoutingDecision">>],
                     "recordDecision")
  /\ nextReq' = nextReq + 1
  /\ UNCHANGED <<config, evaluatorVars, routerVars, file, writable>>

\* forceCerebrum(task)
ForceCerebrum(c) ==
  /\ CanStart(c, MaxOps)
  /\ \E t \in ForceTasks :
       LET a == forcedCerebrumAssessment(t)
           decision == [target |-> "cerebrum", taskType |-> a.taskType,
                        isManualOverride |-> TRUE]
       IN EnterStats(c, [NewCall(c, "forceCerebrum") EXCEPT
                           !.task = <<t>>, !.assessment = <<a>>,
                           !.decision = <<decision>>,
                           !.trace = <<"onRoutingDecision">>],
                     "recordDecision")
  /\ nextReq' = nextReq + 1
  /\ UNCHANGED <<config, evaluatorVars, routerVars, file, writable>>

\* getStats() of the router and of the collector
GetStats(c, maxCalls) ==
  /\ CanStart(c, maxCalls)
  /\ EnterStats(c, NewCall(c, "getStats"), "getStats")
  /\ nextReq' = nextReq + 1
  /\ UNCHANGED <<config, evaluatorVars, routerVars, file, writable>>

\* getStatus()
GetStatus(c) ==
  /\ CanStart(c, MaxOps)
  /\ EnterStats(c, NewCall(c, "getStatus"), "getStats")
  /\ nextReq' = nextReq + 1
  /\ UNCHANGED <<config, evaluatorVars, routerVars, file, writable>>

\* resetStats() of the router, reset() of the collector
Reset(c, maxCalls) ==
  /\ CanStart(c, maxCalls)
  /\ EnterStats(c, NewCall(c, "reset"), "reset")
  /\ nextReq' = nextReq + 1
  /\ UNCHANGED <<config, evaluatorVars, routerVars, file, writable>>

\* ------------------------------------------------------------------------
\* StatsCollector: its record methods called directly
\* ------------------------------------------------------------------------
\* the decisions a caller of the collector records
Decisions ==
  { [target |-> "cerebellum", taskType |-> "simple_qa", isManualOverride |-> FALSE],
    [target |-> "cerebrum", taskType |-> "code_generation",
     isManualOverride |-> FALSE] }

\* recordDecision(decision)
RecordDecision(c, maxCalls) ==
  /\ CanStart(c, maxCalls)
  /\ \E d \in Decisions :
       EnterStats(c, [NewCall(c, "recordDecision") EXCEPT !.decision = <<d>>],
                  "recordDecision")
  /\ nextReq' = nextReq + 1
  /\ UNCHANGED <<config, evaluatorVars, routerVars, file, writable>>

\* recordSuccess(task, response)
RecordSuccess(c, maxCalls) ==
  /\ CanStart(c, maxCalls)
  /\ \E d \in Durations, u \in Usages :
       EnterStats(c, [NewCall(c, "recordSuccess") EXCEPT
                        !.response = <<SuccessResponse("text", d, u)>>],
                  "recordSuccess")
  /\ nextReq' = nextReq + 1
  /\ UNCHANGED <<config, evaluatorVars, routerVars, file, writable>>

\* recordFailure(task, error)
RecordFailure(c, maxCalls) ==
  /\ CanStart(c, maxCalls)
  /\ \E d \in Durations :
       EnterStats(c, [NewCall(c, "recordFailure") EXCEPT
                        !.response = <<FailedResponse(E_API, d)>>],
                  "recordFailure")
  /\ nextReq' = nextReq + 1
  /\ UNCHANGED <<config, evaluatorVars, routerVars, file, writable>>

\* ------------------------------------------------------------------------
\* Inputs of the evaluator
\* ------------------------------------------------------------------------
\* the pieces prompts are concatenated from, for the marker and prefix rules
MarkerTokens ==
  { <<"<","C","B",">">>, CB_CLOSE, <<"c","b">>, <<" ">>, <<"x">> }

\* all concatenations of at most n pieces
RECURSIVE Concats(_, _)
Concats(pieces, n) ==
  IF n = 0 THEN { <<>> }
  ELSE LET shorter == Concats(pieces, n - 1)
       IN shorter \cup { s \o t : s \in shorter, t \in pieces }

\* a configuration whose two lists overlap, and whose lists leave types free
OverlapConfig ==
  [DEFAULT_CEREBELLUM_CONFIG EXCEPT
     !.forceCerebellumFor = {"greeting", "code_generation"},
     !.forceCerebrumFor = {"code_generation", "research"}]

ForcedConfigs == { DEFAULT_CEREBELLUM_CONFIG, OverlapConfig }

InitForced ==
  /\ config \in ForcedConfigs
  /\ task \in { PlainTask(type, body, 0) :
                  type \in TaskType, body \in Concats(MarkerTokens, MaxToks) }
  /\ assessment = <<>>
  /\ ComponentsFresh

\* TaskEvaluator.evaluate(task)
Evaluate ==
  /\ assessment = <<>>
  /\ assessment' = <<evaluate(task, config)>>
  /\ UNCHANGED <<config, task, routerVars, cache, heap, file, writable, calls,
                 nextReq, decisionCalls>>

SpecForced == InitForced /\ [][Evaluate]_vars

\* the pieces prompts are concatenated from, for the prefix rule: the trigger
\* words as users type them, the separators and a letter
PrefixPieces ==
  { <<XIAO, NAO>>, <<"C","e","r","e","b","e","l","l","u","m">>, <<"c","b">>,
    <<"C","B">>, <<" ">>, <<",">>, <<FWCOMMA>>, <<"x">> }

InitPrefix ==
  /\ config \in ForcedConfigs
  /\ task \in { PlainTask(type, body, 0) :
                  type \in TaskType, body \in Concats(PrefixPieces, MaxPieces) }
  /\ assessment = <<>>
  /\ ComponentsFresh

SpecPrefix == InitPrefix /\ [][Evaluate]_vars

\* the words prompts are made of on the heuristic path: one keyword of each
\* list (greeting, status, code, math, creative, analysis, planning)
Words ==
  { <<"h","e","l","l","o">>, <<"s","t","a","t","u","s">>, <<"c","o","d","e">>,
    <<"s","o","l","v","e">>, <<"s","t","o","r","y">>, <<"s","t","u","d","y">>,
    <<"p","l","a","n">> }

\* filler runs that put the prompt length in every band the code tells apart
\* (50, 100, 150, 200, 300, 2000 and 5000 characters)
Pads == { 0, 60, 120, 180, 250, 400, 2100, 5100 }

\* (hasCode, hasMath, isHighFrequency, isScheduledTask)
HintProfiles ==
  { <<FALSE, FALSE, FALSE, FALSE>>, <<TRUE, FALSE, FALSE, FALSE>>,
    <<FALSE, TRUE, FALSE, TRUE>>, <<FALSE, FALSE, TRUE, FALSE>>,
    <<FALSE, FALSE, FALSE, TRUE>>, <<FALSE, FALSE, TRUE, TRUE>> }

\* (estimatedTokens, historyLength)
LoadProfiles == { <<100, 0>>, <<4500, 31>>, <<30000, 11>> }

HeuristicTypes == { "unknown", "simple_qa" }

\* configurations with no forced category
FreeConfig(enabled, thresholds) ==
  [DEFAULT_CEREBELLUM_CONFIG EXCEPT
     !.enabled = enabled, !.thresholds = thresholds,
     !.forceCerebellumFor = {}, !.forceCerebrumFor = {}]

HeuristicConfigs ==
  { FreeConfig(TRUE, DefaultThresholds),
    FreeConfig(FALSE, DefaultThresholds),
    FreeConfig(TRUE, [maxEstimatedTime |-> 100000, maxComplexity |-> 10,
                      minConfidence |-> 800]) }

InitHeuristic ==
  /\ config \in HeuristicConfigs
  /\ task \in { [type |-> type, prompt |-> [body |-> body, pad |-> pad],
                 hasCode |-> h[1], hasMath |-> h[2],
                 estimatedTokens |-> l[1], isHighFrequency |-> h[3],
                 historyLength |-> l[2], isScheduledTask |-> h[4]] :
                  type \in HeuristicTypes, body \in Concats(Words, MaxWords),
                  pad \in Pads, h \in HintProfiles, l \in LoadProfiles }
  /\ assessment = <<>>
  /\ ComponentsFresh

SpecHeuristic == InitHeuristic /\ [][Evaluate]_vars

\* ------------------------------------------------------------------------
\* The router used by concurrent callers
\* ------------------------------------------------------------------------
\* the router is built with the kernel and the stats switched on or off
RouterConfigs ==
  { [DEFAULT_CEREBELLUM_CONFIG EXCEPT !.enabled = e, !.statsEnabled = s] :
      e \in BOOLEAN, s \in BOOLEAN }

\* what the storage location holds when the router is built
StorageContents ==
  { StoredOther("missing"), StoredOther("null"), StoredOther("object") }

Init ==
  /\ config \in RouterConfigs
  /\ task = PlainTask("unknown", <<>>, 0)
  /\ assessment = <<>>
  /\ enableFallback \in BOOLEAN
  /\ cerebellumAvailable = FALSE
  /\ availabilityCheck = "pending"
  /\ cache = 0
  /\ heap = <<>>
  /\ file \in StorageContents
  /\ writable \in BOOLEAN
  /\ calls = [c \in Callers |-> IdleCall]
  /\ nextReq = 1
  /\ decisionCalls = 0

Next ==
  \/ CheckAvailability
  \/ \E c \in Callers :
       \/ Route(c, MaxOps)
       \/ ForceCerebellum(c)
       \/ ForceCerebrum(c)
       \/ GetStats(c, MaxOps)
       \/ GetStatus(c)
       \/ Reset(c, MaxOps)
       \/ StatsReadDone(c)
       \/ StatsMkdirDone(c)
       \/ StatsWriteDone(c)
       \/ KernelGenerate(c)

Spec == Init /\ [][Next]_vars

\* ------------------------------------------------------------------------
\* One collector called sequentially
\* ------------------------------------------------------------------------
StatsConfig == [DEFAULT_CEREBELLUM_CONFIG EXCEPT !.statsEnabled = TRUE]

\* a collector with stats enabled over empty storage: no file yet
InitStats ==
  /\ config = StatsConfig
  /\ task = PlainTask("unknown", <<>>, 0)
  /\ assessment = <<>>
  /\ ComponentsFresh

\* the one caller awaits each call before it makes the next
NextStats ==
  \/ RecordDecision(1, MaxSeqOps)
  \/ RecordSuccess(1, MaxSeqOps)
  \/ RecordFailure(1, MaxSeqOps)
  \/ GetStats(1, MaxSeqOps)
  \/ Reset(1, MaxSeqOps)
  \/ StatsReadDone(1)
  \/ StatsMkdirDone(1)
  \/ StatsWriteDone(1)

SpecStats == InitStats /\ [][NextStats]_vars

\* ------------------------------------------------------------------------
\* One collector over a log at the entry cap
\* ------------------------------------------------------------------------
\* a stored document with n entries, all old, whose log was truncated k times
LongData(n, k) ==
  [entries |-> [old |-> n, recent |-> <<>>],
   totalRequests |-> n + k * (MAX_ENTRIES + 1 - KEPT_ENTRIES),
   successfulRequests |-> 3, failedRequests |-> 2,
   totalDurationMs |-> 21, tokensSaved |-> 15]

InitCap ==
  /\ config = StatsConfig
  /\ task = PlainTask("unknown", <<>>, 0)
  /\ assessment = <<>>
  /\ enableFallback = TRUE
  /\ cerebellumAvailable = FALSE
  /\ availabilityCheck = "pending"
  /\ cache = 0
  /\ heap = <<>>
  /\ file \in { StoredData(LongData(n, k)) :
                  n \in { MAX_ENTRIES - 1, MAX_ENTRIES }, k \in { 0, 1 } }
  /\ writable = TRUE
  /\ calls = [c \in Callers |-> IdleCall]
  /\ nextReq = 1
  /\ decisionCalls = 0

NextCap ==
  \/ RecordDecision(1, MaxCapOps)
  \/ RecordSuccess(1, MaxCapOps)
  \/ RecordFailure(1, MaxCapOps)
  \/ GetStats(1, MaxCapOps)
  \/ Reset(1, MaxCapOps)
  \/ StatsReadDone(1)
  \/ StatsMkdirDone(1)
  \/ StatsWriteDone(1)

SpecCap == InitCap /\ [][NextCap]_vars

\* ------------------------------------------------------------------------
\* The router over a storage location that holds null and rejects writes
\* ------------------------------------------------------------------------
InitStale ==
  /\ config = StatsConfig
  /\ task = PlainTask("unknown", <<>>, 0)
  /\ assessment = <<>>
  /\ enableFallback \in BOOLEAN
  /\ cerebellumAvailable = FALSE
  /\ availabilityCheck = "pending"
  /\ cache = 0
  /\ heap = <<>>
  /\ file = StoredOther("null")
  /\ writable = FALSE
  /\ calls = [c \in Callers |-> IdleCall]
  /\ nextReq = 1
  /\ decisionCalls = 0

NextStale ==
  \/ CheckAvailability
  \/ \E c \in Callers :
       \/ Route(c, MaxStaleOps)
       \/ GetStats(c, MaxStaleOps)
       \/ Reset(c, MaxStaleOps)
       \/ StatsReadDone(c)
       \/ StatsMkdirDone(c)
       \/ StatsWriteDone(c)
       \/ KernelGenerate(c)

SpecStale == InitStale /\ [][NextStale]_vars


\* ------------------------------------------------------------------------
\* One collector over storage an earlier process may have written
\* ------------------------------------------------------------------------
\* the document an earlier process left after two decisions for the remote
\* backend, recorded while stats were enabled
EarlierData == [EmptyStatsData EXCEPT !.entries.old = 2, !.totalRequests = 2]

\* stats are enabled or disabled; the file is absent or holds the earlier
\* document; writeFile succeeds or fails
InitStored ==
  /\ config \in { [DEFAULT_CEREBELLUM_CONFIG EXCEPT !.statsEnabled = s] :
                    s \in BOOLEAN }
  /\ task = PlainTask("unknown", <<>>, 0)
  /\ assessment = <<>>
  /\ enableFallback = TRUE
  /\ cerebellumAvailable = FALSE
  /\ availabilityCheck = "pending"
  /\ cache = 0
  /\ heap = <<>>
  /\ file \in { StoredOther("missing"), StoredData(EarlierData) }
  /\ writable \in BOOLEAN
  /\ calls = [c \in Callers |-> IdleCall]
  /\ nextReq = 1
  /\ decisionCalls = 0

NextStored ==
  \/ RecordDecision(1, MaxStoredOps)
  \/ RecordSuccess(1, MaxStoredOps)
  \/ RecordFailure(1, MaxStoredOps)
  \/ GetStats(1, MaxStoredOps)
  \/ Reset(1, MaxStoredOps)
  \/ StatsReadDone(1)
  \/ StatsMkdirDone(1)
  \/ StatsWriteDone(1)

SpecStored == InitStored /\ [][NextStored]_vars

\* ------------------------------------------------------------------------
\* The evaluator called directly while the router is in use
\* ------------------------------------------------------------------------
\* the task the evaluator is given directly is one the router is given too
InitMixed ==
  /\ config = StatsConfig
  /\ task \in RouteTasks
  /\ assessment = <<>>
  /\ ComponentsFresh

\* one caller, who awaits each call before the next; the direct evaluate call
\* comes at any point between the steps of the calls
NextMixed ==
  \/ Evaluate
  \/ CheckAvailability
  \/ Route(1, MaxMixedOps)
  \/ GetStats(1, MaxMixedOps)
  \/ Reset(1, MaxMixedOps)
  \/ StatsReadDone(1)
  \/ StatsMkdirDone(1)
  \/ StatsWriteDone(1)
  \/ KernelGenerate(1)

SpecMixed == InitMixed /\ [][NextMixed]_vars

\* ------------------------------------------------------------------------
\* The router over empty storage, used by concurrent callers
\* ------------------------------------------------------------------------
\* a freshly constructed router with stats enabled and no stats file; the
\* callers' calls interleave at every await
NextFresh ==
  \/ CheckAvailability
  \/ \E c \in Callers :
       \/ Route(c, MaxOps)
       \/ ForceCerebellum(c)
       \/ ForceCerebrum(c)
       \/ Reset(c, MaxOps)
       \/ StatsReadDone(c)
       \/ StatsMkdirDone(c)
       \/ StatsWriteDone(c)
       \/ KernelGenerate(c)

SpecFresh == InitStats /\ [][NextFresh]_vars

\* ------------------------------------------------------------------------
\* The local backend client called directly
\* ------------------------------------------------------------------------
\* what a fetch of the client can end with: a 2xx reply, another reply, a
\* network error, the AbortSignal timeout
FetchEnds == { "ok", "non2xx", "network_error", "timeout" }

\* what the body of a 2xx reply can be: the JSON the API documents, with or
\* without the configured model in data.models, or text JSON.parse rejects
TagsBodies == { "model_listed", "model_not_listed", "bad_json" }

GenerateBodies == { "json", "bad_json" }

\* isAvailable(): response.ok, false when the fetch throws
isAvailable(end) == end = "ok"

\* isModelAvailable(): false when the reply is not ok, when the fetch or
\* response.json() throws, and when no listed model has the configured name
isModelAvailable(end, body) == end = "ok" /\ body = "model_listed"

\* a generate that does not look at response.ok of its generate reply
generateOutcome_NoStatusCheck(availEnd, tagsEnd, tagsBody, genEnd, genBody) ==
  IF ~isAvailable(availEnd) THEN "unavailable"
  ELSE IF ~isModelAvailable(tagsEnd, tagsBody) THEN "no_model"
  ELSE IF genEnd \in {"network_error", "timeout"} \/ genBody = "bad_json"
  THEN "network_error"
  ELSE "ok"

\* the return path generate takes
generateOutcome(availEnd, tagsEnd, tagsBody, genEnd, genBody) ==
  IF ~isAvailable(availEnd) THEN "unavailable"
  ELSE IF ~isModelAvailable(tagsEnd, tagsBody) THEN "no_model"
  ELSE IF genEnd = "non2xx" THEN "http_error"
  ELSE IF genEnd # "ok" \/ genBody = "bad_json" THEN "network_error"
  ELSE "ok"

\* a generate that trusts the availability check and skips the model check
generateFetches_NoModelCheck(availEnd, tagsEnd, tagsBody, genEnd, genBody) ==
  <<"GET /api/tags", IF isAvailable(availEnd) THEN "available" ELSE "unavailable">>
  \o (IF isAvailable(availEnd)
      THEN <<"POST /api/generate", IF genEnd = "ok" THEN genBody ELSE genEnd>>
      ELSE <<>>)

\* the fetches generate makes and what each ended with, in their order
generateFetches(availEnd, tagsEnd, tagsBody, genEnd, genBody) ==
  <<"GET /api/tags", IF isAvailable(availEnd) THEN "available" ELSE "unavailable">>
  \o (IF isAvailable(availEnd)
      THEN <<"GET /api/tags",
             IF isModelAvailable(tagsEnd, tagsBody)
             THEN "model_available" ELSE "model_unavailable">>
      ELSE <<>>)
  \o (IF isAvailable(availEnd) /\ isModelAvailable(tagsEnd, tagsBody)
      THEN <<"POST /api/generate",
             IF genEnd = "ok" THEN genBody ELSE genEnd>>
      ELSE <<>>)

\* the methods of the client that return a CerebellumResponse
KernelMethods == { "generate", "quickAnswer", "summarize", "convertFormat" }

\* generate(prompt), and quickAnswer, summarize and convertFormat, which
\* return what their one generate call returns.  The client keeps no state
\* between its awaits, so the call is one step.
KernelCall(c) ==
  /\ CanStart(c, MaxOps)
  /\ \E method \in KernelMethods, availEnd \in FetchEnds, tagsEnd \in FetchEnds,
        tagsBody \in TagsBodies, genEnd \in FetchEnds, genBody \in GenerateBodies,
        d \in Durations, u \in Usages :
       LET response ==
             generate(generateOutcome(availEnd, tagsEnd, tagsBody, genEnd, genBody),
                      d, u)
       IN calls' = [calls EXCEPT ![c] =
                      Done([NewCall(c, method) EXCEPT
                              !.method = method,
                              !.response = <<response>>,
                              !.trace = generateFetches(availEnd, tagsEnd, tagsBody,
                                                        genEnd, genBody)],
                           response)]
  /\ nextReq' = nextReq + 1
  /\ UNCHANGED <<config, evaluatorVars, routerVars, cache, heap, file, writable,
                 decisionCalls>>

\* one caller calls the client, one call after the other
NextKernel ==
  \/ CheckAvailability
  \/ KernelCall(1)

SpecKernel == InitStats /\ [][NextKernel]_vars
\* ------------------------------------------------------------------------
\* Properties of the evaluator
\* ------------------------------------------------------------------------
Evaluated == assessment # <<>>

\* the prompt as the case-insensitive marker scan sees it
MarkerText == toLowerCase(PromptText(task.prompt))

\* the forced-local assessment of the marker and prefix rules
IsForcedLocal(a) ==
  /\ a.useCerebellum
  /\ a.confidence = ConfOne
  /\ a.complexity = 2
  /\ a.estimatedTime = 30
  /\ a.precisionRequirement = "low"

\* an open marker at i whose nearest close marker after it leaves content between
PairedMarkerAt(text, i) ==
  /\ OccursAt(text, CB_OPEN, i)
  /\ \E j \in (i + Len(CB_OPEN) + 1)..Len(text) :
       /\ OccursAt(text, CB_CLOSE, j)
       /\ \A k \in (i + Len(CB_OPEN))..(j - 1) : ~OccursAt(text, CB_CLOSE, k)

HasPairedMarker(text) == \E i \in 1..Len(text) : PairedMarkerAt(text, i)

HasUnpairedOpen(text) == includes(text, CB_OPEN) /\ ~includes(text, CB_CLOSE)

\* C3: a task whose declared type is in forceCerebellumFor is assessed
\* useCerebellum = true with confidence 1.0, for every prompt and configuration.
C3_ForceCerebellumFor ==
  (Evaluated /\ task.type \in config.forceCerebellumFor)
    => (assessment[1].useCerebellum /\ assessment[1].confidence = ConfOne)

\* C3 witness: the declared type is in both lists and the category rule decided
C3_Witness ==
  /\ Evaluated
  /\ task.type \in config.forceCerebellumFor \cap config.forceCerebrumFor
  /\ assessment[1].reason = <<"forceCerebellumFor">>

\* C4 as stated: a task whose declared type is in forceCerebrumFor is always
\* assessed useCerebellum = false with confidence 1.0.
C4_ForceCerebrumFor_Original ==
  (Evaluated /\ task.type \in config.forceCerebrumFor)
    => (~assessment[1].useCerebellum /\ assessment[1].confidence = ConfOne)

\* C4 amended: a task whose declared type is in forceCerebrumFor and not in
\* forceCerebellumFor, and whose prompt has neither a paired marker with
\* content, nor an open marker without close marker, nor a trigger prefix, is
\* assessed useCerebellum = false with confidence 1.0.
C4_ForceCerebrumFor ==
  (/\ Evaluated
   /\ task.type \in config.forceCerebrumFor
   /\ task.type \notin config.forceCerebellumFor
   /\ ~HasPairedMarker(MarkerText)
   /\ ~HasUnpairedOpen(MarkerText)
   /\ PrefixRule(task) = <<>>)
    => (~assessment[1].useCerebellum /\ assessment[1].confidence = ConfOne)

\* C4 witness: a force-remote type and a prompt whose markers enclose nothing
C4_Witness ==
  /\ Evaluated
  /\ task.type \in config.forceCerebrumFor
  /\ task.type \notin config.forceCerebellumFor
  /\ includes(MarkerText, CB_OPEN)
  /\ includes(MarkerText, CB_CLOSE)
  /\ ~HasPairedMarker(MarkerText)
  /\ PrefixRule(task) = <<>>
  /\ ~assessment[1].useCerebellum
  /\ assessment[1].confidence = ConfOne

\* C5: a prompt that contains a paired <cb>...</cb> marker with content between
\* the markers, or an open marker and no close marker, gets the forced-local
\* assessment whatever the declared type is.
C5_MarkerForcesLocal ==
  (Evaluated /\ (HasPairedMarker(MarkerText) \/ HasUnpairedOpen(MarkerText)))
    => IsForcedLocal(assessment[1])

\* the heuristic path: no forced rule matched
OnHeuristicPath == Evaluated /\ checkForcedRules(task, config) = <<>>

GatesPass(a) ==
  /\ a.complexity <= config.thresholds.maxComplexity
  /\ a.estimatedTime <= config.thresholds.maxEstimatedTime
  /\ a.confidence >= config.thresholds.minConfidence
  /\ a.precisionRequirement # "high"

\* C6: on the heuristic path useCerebellum is true only if the complexity, time,
\* confidence and precision gates all pass; no hint overrides a failed gate.
C6_ThresholdGates ==
  (OnHeuristicPath /\ assessment[1].useCerebellum) => GatesPass(assessment[1])

\* C6 witness: a scheduled, high-frequency task within the shortcut's time limit
\* is kept from the local backend by a failed gate
C6_Witness ==
  /\ OnHeuristicPath
  /\ task.isScheduledTask
  /\ task.isHighFrequency
  /\ assessment[1].estimatedTime < 600
  /\ ~GatesPass(assessment[1])
  /\ ~assessment[1].useCerebellum


\* the task with its prompt padded to another length
Padded(pad) == [task EXCEPT !.prompt.pad = pad]

\* the lengths of Pads above the task's own, and the nearest of them
LongerPads == { pad \in Pads : pad > task.prompt.pad }

\* C15: on the heuristic path a task whose prompt is made longer, all else
\* equal (same words, hints, token estimate and history length), never gets a
\* lower complexity, across the 2000 and 5000 character thresholds and the
\* length thresholds of the type detection.  Every length of Pads is the
\* length of an evaluated task, so the comparison of each task with the same
\* task at the next length of Pads orders all of them; the filler holds no
\* marker and no trigger, so the longer task is on the heuristic path too.
C15_LengthMonotone ==
  Evaluated /\ OnHeuristicPath =>
    \A pad \in LongerPads :
      (\A other \in LongerPads : pad <= other) =>
        evaluate(Padded(pad), config).complexity >= assessment[1].complexity

\* a short greeting scores lower than the same words in a prompt that is
\* over 5000 characters long and is detected as another type
C15_Witness ==
  /\ Evaluated /\ OnHeuristicPath
  /\ task.prompt.pad = 0
  /\ assessment[1].taskType = "greeting"
  /\ checkForcedRules(Padded(5100), config) = <<>>
  /\ evaluate(Padded(5100), config).taskType # "greeting"
  /\ evaluate(Padded(5100), config).complexity >= assessment[1].complexity + 2

\* the trigger tokens of the prefix rule
TriggerPrefixes ==
  { <<XIAO, NAO>>, <<"c","e","r","e","b","e","l","l","u","m">>,
    <<"c","b"," ">>, <<"c","b",FWCOMMA>>, <<"c","b",",">> }

\* the trimmed, lower-cased prompt starts with a trigger token
HasTriggerPrefix ==
  \E prefix \in TriggerPrefixes :
    startsWith(toLowerCase(trim(PromptText(task.prompt))), prefix)

\* C16: a prompt that, trimmed and lower-cased, starts with a trigger token
\* gets the forced-local assessment of the marker rule (useCerebellum true,
\* confidence 1.0, complexity 2, time 30, precision low, type
\* keyword_triggered), whatever list the declared type is in.
C16_PrefixForcesLocal ==
  Evaluated /\ HasTriggerPrefix =>
    /\ IsForcedLocal(assessment[1])
    /\ assessment[1].taskType = "keyword_triggered"

\* a prompt " CB，x"-like: upper-case trigger after a blank, for a type of
\* forceCerebrumFor
C16_Witness ==
  /\ Evaluated
  /\ startsWith(PromptText(task.prompt), <<" ", "C", "B", FWCOMMA>>)
  /\ task.type \in config.forceCerebrumFor
  /\ task.type \notin config.forceCerebellumFor
  /\ IsForcedLocal(assessment[1])
  /\ assessment[1].reason = <<"prefix">>

\* C18: on the heuristic path the precision requirement is high when code or
\* math content is detected (by keyword or by the caller's hint), else medium
\* when analysis or creative keywords are present, else low when the task type
\* the assessment reports is greeting or simple_qa, else medium.
C18_Precision ==
  Evaluated /\ OnHeuristicPath =>
    LET analysis == analyzeTask(task)
    IN assessment[1].precisionRequirement =
         IF analysis.hasCode \/ analysis.hasMath THEN "high"
         ELSE IF analysis.hasAnalysis \/ analysis.hasCreative THEN "medium"
         ELSE IF assessment[1].taskType \in {"greeting", "simple_qa"} THEN "low"
         ELSE "medium"

\* tasks with a clear type: one for each type of the default forced lists
ClearTasks ==
  { PlainTask(type, <<"h","i">>, 0) :
      type \in DefaultForceCerebellumFor \cup DefaultForceCerebrumFor }

\* the confidence evaluate gives a clear task under the default configuration
ClearConfidence(clear) == evaluate(clear, DEFAULT_CEREBELLUM_CONFIG).confidence

\* C19 as stated: every task whose declared type is a forced category gets a
\* strictly higher confidence than every task of declared type unknown that
\* matches no forced rule.
C19_ClearOverVague_Original ==
  Evaluated /\ task.type = "unknown" /\ OnHeuristicPath =>
    \A clear \in ClearTasks : ClearConfidence(clear) > assessment[1].confidence

\* C19 amended: the confidence of a task whose declared type is a forced
\* category is never lower than that of a task of declared type unknown that
\* matches no forced rule, and it is strictly higher unless the unknown task
\* is high-frequency, is detected as a type other than unknown, has complexity
\* 3 or less and a prompt under 100 characters (both are then 1.0).
C19_ClearOverVague ==
  Evaluated /\ task.type = "unknown" /\ OnHeuristicPath =>
    \A confidence \in { ClearConfidence(clear) : clear \in ClearTasks } :
      /\ confidence >= assessment[1].confidence
      /\ confidence = assessment[1].confidence =>
           /\ task.isHighFrequency
           /\ assessment[1].taskType # "unknown"
           /\ assessment[1].complexity <= 3
           /\ PromptLength(task.prompt) < 100

\* a task of declared type unknown that gets every bonus but the
\* high-frequency one stays just below the confidence of the clear tasks
C19_Witness ==
  /\ Evaluated /\ OnHeuristicPath /\ task.type = "unknown"
  /\ ~task.isHighFrequency
  /\ assessment[1].taskType = "greeting"
  /\ assessment[1].confidence = ConfOne - 1
  /\ \A clear \in ClearTasks : ClearConfidence(clear) = ConfOne

\* complexity within 1..10 and confidence within [0, 1]
InRange(a) == a.complexity \in 1..10 /\ a.confidence \in 0..ConfOne

\* tasks of the forced path: the clear tasks, and a task of a forceCerebrumFor
\* type with an open marker and one with a trigger prefix
ForcedTasks ==
  ClearTasks \cup { PlainTask("research", CB_OPEN \o <<"x">>, 0),
                    PlainTask("research", <<"c","b"," ","x">>, 0) }

\* C20: the assessment evaluate returns on the heuristic path, however long
\* the prompt and the history and however large the token estimate, the
\* assessments it returns on the forced path (marker, prefix and every type
\* of the default forced lists), and the synthetic assessments
\* forceCerebellum and forceCerebrum build, all have complexity within 1..10
\* and confidence within [0, 1].
C20_Ranges ==
  Evaluated =>
    /\ InRange(assessment[1])
    /\ \A forced \in ForcedTasks :
         InRange(evaluate(forced, DEFAULT_CEREBELLUM_CONFIG))
    /\ InRange(forcedCerebellumAssessment(task))
    /\ InRange(forcedCerebrumAssessment(task))

\* a code task whose prompt, history and token estimate push the sum of the
\* complexity terms to 15, returned as 10
C20_Witness ==
  /\ Evaluated /\ OnHeuristicPath
  /\ PromptLength(task.prompt) > 5000
  /\ task.historyLength > 30
  /\ task.estimatedTokens > 4000
  /\ assessment[1].taskType = "code_generation"
  /\ calculateComplexity_NoClamp(task, analyzeTask(task)) = 15
  /\ assessment[1].complexity = 10

\* ------------------------------------------------------------------------
\* Properties of the router
\* ------------------------------------------------------------------------
\* route chose the local backend and the backend returned a failed response
FailedLocal(cr) ==
  cr.op = "route" /\ cr.response # <<>> /\ ~cr.response[1].success

\* what route read when it computed useCerebellum
LocalFlags(cr) ==
  cr.assessment[1].useCerebellum /\ config.enabled /\ cr.availableRead

\* C1: a route call whose local backend call returned a failed response
\* returns, with fallback enabled, target cerebrum with fallbackReason set to
\* the failure's error and no cerebellumResponse and, with fallback disabled,
\* target cerebellum with the failed response intact.
C1_FailedResponse ==
  \A c \in Callers :
    LET cr == calls[c]
    IN FailedLocal(cr) /\ Returned(cr) =>
         /\ cr.pc = "done"
         /\ cr.result[1] =
              IF enableFallback
              THEN RouteResult("cerebrum", cr.assessment[1], <<>>,
                               cr.response[1].error)
              ELSE RouteResult("cerebellum", cr.assessment[1], cr.response, <<>>)

\* C2: route invokes the local backend if and only if assessment.useCerebellum,
\* config.enabled and the cached reachability flag were all true when it read
\* them; otherwise it returns target cerebrum with the assessment, without
\* cerebellumResponse or fallbackReason, and without a local backend call.
C2_LocalIff ==
  \A c \in Callers :
    LET cr == calls[c]
    IN cr.op = "route" =>
         /\ cr.backendCalls > 0 => LocalFlags(cr)
         /\ Returned(cr) =>
              IF LocalFlags(cr)
              THEN cr.backendCalls = 1
              ELSE /\ cr.pc = "done"
                   /\ cr.backendCalls = 0
                   /\ cr.result[1] =
                        RouteResult("cerebrum", cr.assessment[1], <<>>, <<>>)

\* ------------------------------------------------------------------------
\* Properties of the collector
\* ------------------------------------------------------------------------
\* C7: under concurrent route calls every back-filled log entry was back-filled
\* by the request whose recordDecision appended it.
C7_OwnEntry ==
  \A i \in 1..Len(heap) :
    heap[i].shape = "data" =>
      \A k \in 1..LogLen(heap[i].data.entries) :
        LET e == LogAt(heap[i].data.entries, k)
        IN e.filledBy # 0 => e.filledBy = e.req

\* C8: whatever the storage holds, no call of recordDecision, recordSuccess,
\* recordFailure, getStats or reset raises an error, so that no router call
\* ends with one.
C8_NoThrow == \A c \in Callers : calls[c].pc # "thrown"

\* C9: between the calls of a sequentially used collector, totalRequests of the
\* cached document, of the stored document and of the snapshot just returned
\* equal the number of recordDecision calls since the last reset, and the log
\* holds no more entries than that.
C9_TotalRequests ==
  Returned(calls[1]) =>
    /\ cache # 0 /\ heap[cache].shape = "data" =>
         /\ heap[cache].data.totalRequests = decisionCalls
         /\ LogLen(heap[cache].data.entries) <= heap[cache].data.totalRequests
    /\ file.kind = "data" => file.data.totalRequests = decisionCalls
    /\ calls[1].op = "getStats" /\ calls[1].pc = "done" =>
         calls[1].result[1].totalRequests = decisionCalls

\* a decision recorded after a reset is the only one counted and retained
C9_Witness ==
  /\ calls[1].op = "getStats" /\ calls[1].pc = "done"
  /\ calls[1].result[1].totalRequests = 1
  /\ decisionCalls = 1
  /\ cache # 0
  /\ LogLen(heap[cache].data.entries) = 1
  /\ LogAt(heap[cache].data.entries, 1).req = 3

\* the step in which recordDecision updates the document it loaded
PushStep ==
  /\ calls[1].pc # "st_mkdir"
  /\ calls'[1].pc = "st_mkdir"
  /\ calls'[1].sop = "recordDecision"

\* C10: the stored log never holds more than MAX_ENTRIES entries; the
\* recordDecision that pushes the log over MAX_ENTRIES keeps the last
\* KEPT_ENTRIES entries in their order, the new entry last, and leaves the
\* lifetime totals as the push made them.
C10_EntryCap ==
  [][
      /\ file'.kind = "data" => LogLen(file'.data.entries) <= MAX_ENTRIES
      /\ PushStep =>
           LET ref == calls'[1].data
               old == IF ref <= Len(heap) THEN heap[ref].data
                      ELSE parseContent(file).data
               new == heap'[ref].data
               pushed == Append(LogSeq(old.entries),
                                NewEntry(calls'[1].decision[1], calls'[1].req))
           IN /\ LogLen(new.entries) <= MAX_ENTRIES
              /\ LogSeq(new.entries) =
                   IF Len(pushed) > MAX_ENTRIES
                   THEN SubSeq(pushed, Len(pushed) - KEPT_ENTRIES + 1, Len(pushed))
                   ELSE pushed
              /\ LogAt(new.entries, LogLen(new.entries)).req = calls'[1].req
              /\ new.totalRequests = old.totalRequests + 1
              /\ new.successfulRequests = old.successfulRequests
              /\ new.failedRequests = old.failedRequests
              /\ new.totalDurationMs = old.totalDurationMs
              /\ new.tokensSaved = old.tokensSaved
  ]_vars

\* a recordDecision has returned that cut a full log down
C10_Witness ==
  /\ calls[1].op = "recordDecision" /\ calls[1].pc = "done"
  /\ cache # 0
  /\ LogLen(heap[cache].data.entries) = KEPT_ENTRIES
  /\ LogAt(heap[cache].data.entries, KEPT_ENTRIES).req = calls[1].req
  /\ LogAt(heap[cache].data.entries, 1).req < 0
  /\ heap[cache].data.totalRequests > MAX_ENTRIES
  /\ file = StoredData(heap[cache].data)

\* ------------------------------------------------------------------------
\* Properties of reset and of disabled stats
\* ------------------------------------------------------------------------
\* a snapshot with all counts zero and an empty per-type map
ZeroSnapshot(s) ==
  /\ s.totalRequests = 0
  /\ s.successfulRequests = 0
  /\ s.failedRequests = 0
  /\ DOMAIN s.taskTypeStats = {}

\* C11: the getStats call that follows a completed reset returns a snapshot
\* with totalRequests, successfulRequests and failedRequests zero and an empty
\* per-type map, whatever was recorded or stored before, whether stats are
\* enabled or not and whether the write to storage succeeded or not.
C11_ResetThenStats ==
  calls[1].op = "getStats" /\ calls[1].after = "reset" /\ Returned(calls[1]) =>
    /\ calls[1].pc = "done"
    /\ ZeroSnapshot(calls[1].result[1])

\* the methods that only record
RecordOps == { "recordDecision", "recordSuccess", "recordFailure", "reset" }

\* C12: with stats disabled, no step of recordDecision, recordSuccess,
\* recordFailure or reset changes the cached document or the stored file, and
\* every getStats call returns the default empty snapshot, whatever the
\* storage location holds.
C12_DisabledNoOp ==
  [][ ~config.statsEnabled =>
        /\ calls'[1].op \in RecordOps =>
             cache' = cache /\ heap' = heap /\ file' = file
        /\ calls'[1].op = "getStats" /\ Returned(calls'[1]) =>
             /\ calls'[1].pc = "done"
             /\ calls'[1].result[1] = statsSnapshot(EmptyStatsData)
  ]_vars

\* ------------------------------------------------------------------------
\* Properties of the router's calls
\* ------------------------------------------------------------------------
\* how often a call's trace holds the event
Count(trace, event) == Cardinality({ i \in 1..Len(trace) : trace[i] = event })

\* C13: a route call makes at most one call of the local backend and gives at
\* most one onFallbackToCerebrum notification: once the backend has returned a
\* failed response the call makes no further backend call, and it reports the
\* fallback only after that one failed call.
C13_SingleAttempt ==
  \A c \in Callers :
    LET cr == calls[c]
    IN cr.op = "route" =>
         /\ cr.backendCalls <= 1
         /\ Count(cr.trace, "generate") = cr.backendCalls
         /\ Count(cr.trace, "onFallbackToCerebrum") <= cr.backendCalls
         /\ Count(cr.trace, "onFallbackToCerebrum") > 0 => FailedLocal(cr)

\* a route call has fallen back after its one failed backend call
C13_Witness ==
  \E c \in Callers :
    /\ calls[c].op = "route" /\ calls[c].pc = "done"
    /\ FailedLocal(calls[c])
    /\ calls[c].backendCalls = 1
    /\ Count(calls[c].trace, "onFallbackToCerebrum") = 1
    /\ calls[c].result[1].target = "cerebrum"

\* the decision a manual override hands to recordDecision
ForcedDecision(cr) ==
  [target |-> IF cr.op = "forceCerebellum" THEN "cerebellum" ELSE "cerebrum",
   taskType |-> cr.task[1].type, isManualOverride |-> TRUE]

\* C14: forceCerebellum and forceCerebrum build their assessment from the task
\* alone, whatever the evaluator would say, and record exactly one decision
\* with the forced target and isManualOverride true, by the recordDecision
\* that route uses, so that totalRequests counts it: once every call has
\* returned, totalRequests of the cached document is the number of decisions
\* recorded since the last reset.  A decision of route has isManualOverride
\* false, and forceCerebrum makes no call of the local backend.
C14_ManualOverride ==
  /\ \A c \in Callers :
       LET cr == calls[c]
       IN /\ cr.op = "forceCerebellum" =>
               cr.assessment[1] = forcedCerebellumAssessment(cr.task[1])
          /\ cr.op = "forceCerebrum" =>
               /\ cr.assessment[1] = forcedCerebrumAssessment(cr.task[1])
               /\ cr.backendCalls = 0
          /\ cr.op \in {"forceCerebellum", "forceCerebrum"} =>
               /\ cr.decision[1] = ForcedDecision(cr)
               /\ Count(cr.trace, "recordDecision") <= 1
               /\ Returned(cr) =>
                    cr.pc = "done" /\ Count(cr.trace, "recordDecision") = 1
          /\ cr.op = "route" => ~cr.decision[1].isManualOverride
  /\ (\A c \in Callers : Returned(calls[c]))
       /\ (\E c \in Callers : calls[c].op \in {"forceCerebellum", "forceCerebrum"})
       => /\ cache # 0
          /\ heap[cache].shape = "data"
          /\ heap[cache].data.totalRequests = decisionCalls

\* ------------------------------------------------------------------------
\* Properties of the evaluator inside the router
\* ------------------------------------------------------------------------
\* the evaluations the state holds: (task, assessment) of the direct call
\* and of every route call
Evaluations ==
  (IF Evaluated THEN { <<task, assessment[1]>> } ELSE {})
    \cup { <<calls[c].task[1], calls[c].assessment[1]>> :
             c \in { d \in Callers : calls[d].op = "route" } }

C21_NoLostDecision ==
  (/\ nextReq = NumCallers + 1
   /\ \A c \in Callers : calls[c].op = "route" /\ Returned(calls[c]))
    => /\ \A c \in Callers : calls[c].pc = "done"
       /\ cache # 0
       /\ heap[cache].data.totalRequests = NumCallers
       /\ LogLen(heap[cache].data.entries) = NumCallers

\* C23: in every state of a collector that started from empty storage, the
\* successful and the failed requests of its document together are at most
\* its total requests, however route, forceCerebellum, forceCerebrum and
\* resetStats calls interleave.
C23_OutcomesWithinTotal ==
  cache # 0 =>
    heap[cache].data.successfulRequests + heap[cache].data.failedRequests
      <= heap[cache].data.totalRequests

\* ------------------------------------------------------------------------
\* Properties of the reachability flag
\* ------------------------------------------------------------------------
\* C22: while the check started by the constructor has not completed, every
\* route call has read the reachability flag as false, has not called the
\* local backend and, once it has returned, has returned target cerebrum
\* with its assessment, whatever the task and the configuration.
C22_PendingCheck ==
  availabilityCheck = "pending" =>
    \A c \in Callers :
      LET cr == calls[c]
      IN cr.op = "route" =>
           /\ ~cr.availableRead
           /\ cr.backendCalls = 0
           /\ Returned(cr) =>
                /\ cr.pc = "done"
                /\ cr.result[1] =
                     RouteResult("cerebrum", cr.assessment[1], <<>>, <<>>)

\* C27: only the check started by the constructor writes the reachability
\* flag, and once that check has reported unreachable every route call
\* started afterwards makes no local backend call and returns target
\* cerebrum with its assessment.
C27_FlagWrittenOnce ==
  /\ availabilityCheck \in {"pending", "done"}
  /\ availabilityCheck = "pending" => ~cerebellumAvailable
  /\ (availabilityCheck = "done" /\ ~cerebellumAvailable) =>
       \A c \in Callers :
         LET cr == calls[c]
         IN cr.op = "route" =>
              /\ cr.backendCalls = 0
              /\ Returned(cr) =>
                   /\ cr.pc = "done"
                   /\ cr.result[1] =
                        RouteResult("cerebrum", cr.assessment[1], <<>>, <<>>)

\* ------------------------------------------------------------------------
\* Properties of the manual override to the local backend
\* ------------------------------------------------------------------------
\* C29: a forceCerebellum call that has returned has called the local
\* backend once, whatever config.enabled and the reachability flag are, has
\* recorded one outcome (recordSuccess if the response succeeded,
\* recordFailure otherwise) and has returned the backend's response itself,
\* without a fallback to cerebrum whatever enableFallback is.
C29_ForcedLocalCall ==
  \A c \in Callers :
    LET cr == calls[c]
    IN cr.op = "forceCerebellum" /\ Returned(cr) =>
         /\ cr.pc = "done"
         /\ cr.backendCalls = 1
         /\ Count(cr.trace, "generate") = 1
         /\ Count(cr.trace, "recordSuccess")
              = (IF cr.response[1].success THEN 1 ELSE 0)
         /\ Count(cr.trace, "recordFailure")
              = (IF cr.response[1].success THEN 0 ELSE 1)
         /\ Count(cr.trace, "onFallbackToCerebrum") = 0
         /\ cr.result[1] = cr.response[1]

\* ------------------------------------------------------------------------
\* Properties of the steps of one route call
\* ------------------------------------------------------------------------
\* the position of the first occurrence of event in trace, 0 if there is none
First(trace, event) ==
  IF \E i \in 1..Len(trace) : trace[i] = event
  THEN CHOOSE i \in 1..Len(trace) :
         trace[i] = event /\ \A j \in 1..(i - 1) : trace[j] # event
  ELSE 0

\* event a occurs in trace and before every occurrence of event b
Before(trace, a, b) ==
  First(trace, b) # 0 => (First(trace, a) # 0 /\ First(trace, a) < First(trace, b))

\* C24: in every route call the decision is emitted before recordDecision
\* completes, recordDecision completes before the local backend is called,
\* the backend responds before recordSuccess or recordFailure completes,
\* these complete before the success, failure and fallback callbacks fire,
\* and the callbacks fire before route returns.
C24_Sequential ==
  \A c \in Callers :
    LET cr == calls[c]
        tr == cr.trace
    IN cr.op = "route" =>
         /\ Before(tr, "onRoutingDecision", "recordDecision")
         /\ Before(tr, "recordDecision", "generate")
         /\ Before(tr, "generate", "recordSuccess")
         /\ Before(tr, "generate", "recordFailure")
         /\ Before(tr, "recordSuccess", "onCerebellumSuccess")
         /\ Before(tr, "recordFailure", "onCerebellumFailure")
         /\ Before(tr, "onCerebellumFailure", "onFallbackToCerebrum")
         /\ Before(tr, "recordDecision", "return")
         /\ \A i \in 1..Len(tr) : tr[i] = "return" => i = Len(tr)
         /\ \A e \in {"onRoutingDecision", "recordDecision", "generate",
                      "onCerebellumSuccess", "onCerebellumFailure",
                      "onFallbackToCerebrum", "return"} : Count(tr, e) <= 1
         /\ Count(tr, "recordSuccess") + Count(tr, "recordFailure")
              <= Count(tr, "generate")
         /\ Count(tr, "recordSuccess") + Count(tr, "recordFailure") > 0
              => cr.response # <<>>

C24_Witness ==
  \E c \in Callers :
    calls[c].op = "route" /\ calls[c].pc = "done"
      /\ calls[c].trace = <<"onRoutingDecision", "recordDecision", "generate",
                            "recordFailure", "onCerebellumFailure",
                            "onFallbackToCerebrum", "return">>

\* ------------------------------------------------------------------------
\* Properties of a type listed in both forced categories
\* ------------------------------------------------------------------------
\* C30: a task whose declared type is in forceCerebellumFor and in
\* forceCerebrumFor, and for which neither the marker rule nor the prefix
\* rule fires, gets the force-local assessment of the category rule:
\* useCerebellum true, confidence 1.0, complexity 2, time 30, precision low,
\* with the declared type.
C30_LocalListFirst ==
  (/\ Evaluated
   /\ task.type \in config.forceCerebellumFor \cap config.forceCerebrumFor
   /\ MarkerRule(task) = <<>>
   /\ PrefixRule(task) = <<>>)
    => /\ IsForcedLocal(assessment[1])
       /\ assessment[1].taskType = task.type
       /\ assessment[1].reason = <<"forceCerebellumFor">>

\* C30 witness: a type in both lists, with a prompt that holds a close marker
\* only, assessed force-local
C30_Witness ==
  /\ Evaluated
  /\ task.type \in config.forceCerebellumFor \cap config.forceCerebrumFor
  /\ includes(MarkerText, CB_CLOSE)
  /\ MarkerRule(task) = <<>>
  /\ PrefixRule(task) = <<>>
  /\ IsForcedLocal(assessment[1])
  /\ assessment[1].taskType = task.type

\* ------------------------------------------------------------------------
\* Properties of the getStats snapshot
\* ------------------------------------------------------------------------
RECURSIVE SumCounts(_, _)
\* the sum of the counts of the per-type map stats over the types
SumCounts(stats, types) ==
  IF types = {} THEN 0
  ELSE LET t == CHOOSE x \in types : TRUE
       IN stats[t].count + SumCounts(stats, types \ {t})

\* the document loadData gives: the cached one, else the stored one
LoadedData == IF cache # 0 THEN heap[cache].data ELSE parseContent(file).data

\* C28: the per-type counts of every getStats snapshot sum to the number of
\* entries the log retains, which is smaller than totalRequests once the
\* log has been truncated; the snapshot's totals are the document's
\* counters; and no step of getStats changes the log, the counters or the
\* stored document.
C28_Snapshot ==
  [][
      /\ calls'[1].op = "getStats" /\ calls'[1].pc = "done" =>
           LET s == calls'[1].result[1]
               data == heap'[cache'].data
           IN /\ SumCounts(s.taskTypeStats, DOMAIN s.taskTypeStats)
                   = LogLen(data.entries)
              /\ LogLen(data.entries) <= s.totalRequests
              /\ s.totalRequests > MAX_ENTRIES
                   => LogLen(data.entries) < s.totalRequests
              /\ s.totalRequests = data.totalRequests
              /\ s.successfulRequests = data.successfulRequests
              /\ s.failedRequests = data.failedRequests
              /\ s.tokensSaved = data.tokensSaved
      /\ calls'[1].op = "getStats" =>
           /\ file' = file
           /\ LoadedData' = LoadedData
  ]_vars

\* a getStats has returned after a recordDecision cut the full log down
C28_Witness ==
  /\ calls[1].op = "getStats" /\ calls[1].pc = "done"
  /\ calls[1].after = "recordDecision"
  /\ SumCounts(calls[1].result[1].taskTypeStats,
               DOMAIN calls[1].result[1].taskTypeStats) = KEPT_ENTRIES
  /\ calls[1].result[1].totalRequests = MAX_ENTRIES + 1
  /\ Cardinality(DOMAIN calls[1].result[1].taskTypeStats) = 2

\* ------------------------------------------------------------------------
\* Properties of the local backend client
\* ------------------------------------------------------------------------
\* the calls of the client's methods that have returned or thrown
KernelCalls ==
  { c \in Callers : calls[c].op \in KernelMethods /\ Returned(calls[c]) }

\* C25: in every call of the client the generate request is sent at most
\* once and only after the availability check and the model check of that
\* call have both succeeded, in this order; when a check has failed the call
\* sends no generate request and returns a failed response; and this is so
\* whatever the router's reachability flag is.
C25_ChecksBeforeGenerate ==
  \A c \in KernelCalls :
    LET tr == calls[c].trace
    IN /\ Count(tr, "POST /api/generate") <= 1
       /\ Before(tr, "available", "POST /api/generate")
       /\ Before(tr, "model_available", "POST /api/generate")
       /\ Before(tr, "available", "model_available")
       /\ (Count(tr, "unavailable") + Count(tr, "model_unavailable") > 0) =>
            /\ Count(tr, "POST /api/generate") = 0
            /\ calls[c].pc = "done"
            /\ ~calls[c].result[1].success
       /\ (Count(tr, "available") = 1 /\ Count(tr, "model_available") = 1) =>
            Count(tr, "POST /api/generate") = 1

\* C25 witness: the router's flag says unreachable, and a call that followed
\* one stopped by the model check has found the service and the model, sent
\* the generate request and returned its reply
C25_Witness ==
  /\ availabilityCheck = "done"
  /\ ~cerebellumAvailable
  /\ 1 \in KernelCalls
  /\ calls[1].req = 2
  /\ calls[1].trace = <<"GET /api/tags", "available",
                        "GET /api/tags", "model_available",
                        "POST /api/generate", "json", "return">>
  /\ calls[1].result[1].success

\* how the generate fetch of a call failed, if it did
GenerateFailures == { "non2xx", "network_error", "timeout", "bad_json" }

\* C26: every call of generate, quickAnswer, summarize and convertFormat
\* returns a response and never throws; a response with success false has an
\* empty text and an error, a response with success true has no error; and
\* the response has success false when the service is unreachable, the model
\* is missing, the generate reply is not 2xx, or the generate fetch ends with
\* a network error, a timeout or an unreadable body.
C26_ResponseShape ==
  \A c \in KernelCalls :
    /\ calls[c].pc = "done"
    /\ LET r == calls[c].result[1]
           tr == calls[c].trace
       IN /\ ~r.success => (r.text = "" /\ r.error # <<>> /\ r.error[1] # "")
          /\ r.success => r.error = <<>>
          /\ r.success <=>
               (Count(tr, "POST /api/generate") = 1 /\ Count(tr, "json") = 1)
          /\ (\/ Count(tr, "unavailable") > 0
              \/ Count(tr, "model_unavailable") > 0
              \/ \E f \in GenerateFailures : Count(tr, f) > 0) => ~r.success

\* C26 witness: a summarize call that followed a quickAnswer call has failed
\* on a timeout of its generate fetch
C26_Witness ==
  /\ 1 \in KernelCalls
  /\ calls[1].op = "summarize"
  /\ calls[1].after = "quickAnswer"
  /\ Count(calls[1].trace, "timeout") = 1
  /\ calls[1].result[1] = FailedResponse(E_NETWORK, calls[1].result[1].durationMs)
====
